---- MODULE Spec2Model ----
(***************************************************************************)
(* A model of onnxruntime's inference runtime.                             *)
(*                                                                         *)
(* Spec, FairSpec: the ParallelExecutor (core/framework/                   *)
(*   parallel_executor.cc, held in contrib_ops/cpu/slice_schema_defs.cc    *)
(*   from line 72 on): the reference-counted dataflow scheduler that runs  *)
(*   the nodes of a graph on a worker pool.  One Execute call is modelled: *)
(*   the calling thread enqueues the root nodes and waits on               *)
(*   out_standings_, the workers run RunNodeAsync / RunNodeAsyncInternal.  *)
(*   FinishNodeRun (declared in parallel_executor.h) and the thread pool   *)
(*   are modelled from the specification's sections 4.F and 5.             *)
(* SessionSpec: InferenceSession::Impl (core/session/inference_session.cc):*)
(*   threads calling Load, Initialize, Run, NewIOBinding and the Register  *)
(*   functions of one session.                                             *)
(* CopySpec: InferenceSession::Impl::CopyOutputsAcrossDevices.             *)
(* RewriterSpec: GraphTransformerManager::ApplyAll.                        *)
(* FusionSpec: ConvBNFusion::Apply and ConvMulFusion::Apply                *)
(*   (core/graph/conv_bn_fusion.cc).                                       *)
(* UncountedSpec: the session with current_num_runs_ as the constructor    *)
(*   leaves it.  GateSpec, ConvBNSpec, ConvMulSpec, ShareSpec: the tests   *)
(*   and the arithmetic of the two Conv fusions.  IdentitySpec, SliceSpec, *)
(*   ManagerSpec: the rewrite rules and the transformer manager.           *)
(* ReverseSpec, CustomSliceSpec: contrib kernels.  PoolSpec: the thread    *)
(*   pool of a session.  MatchSpec: Impl::MatchOutputsWithProviders.       *)
(* Every specification keeps the variables of the others at their idle     *)
(* values.                                                                 *)
(***************************************************************************)
EXTENDS Integers, Sequences, FiniteSets, TLC

\* ---------------------------------------------------------------- bounds
MaxNodes == 3
NumWorkers == 2

Nodes == 1..MaxNodes
Workers == 1..NumWorkers
\* Candidate edges of the graph: node indices are a topological numbering.
EdgePairs == {e \in Nodes \X Nodes : e[1] < e[2]}

VARIABLES
  edges,            \* the graph's edges, <<producer, consumer>>
  hasKernel,        \* nodes for which session_state.GetKernel is non-null
  node_refs_,       \* ParallelExecutor::node_refs_
  out_standings_,   \* ParallelExecutor::out_standings_
  terminate_flag_,  \* the caller's RunOptions::terminate, read by reference
  ref_mutex_,       \* holder of ref_mutex_ (a worker), 0 when free
  complete_mutex_,  \* TRUE while the thread in Execute holds complete_mutex_
  queue,            \* tasks handed to the thread pool and not yet picked up
  worker,           \* per worker: position and locals of RunNodeAsyncInternal
  mainPc,           \* position of the thread inside Execute
  rootIt,           \* Execute's iterator over GetRootNodes()
  status,           \* the Status Execute returned ("none" before it returns)
  fetches,          \* the fetches vector filled by FetchOutput
  frame,            \* root_frame_: the value of each node's output, 0 = unallocated
  log,              \* per node, the fence observations and Compute calls made for it
  order,            \* nodes in the order their kernels completed with OK
  started,          \* nodes that passed the terminate check at the loop head
  scheduled,        \* nodes adopted by a worker or passed to EnqueueNode
  edgeDone,         \* edges whose decrement of node_refs_ has happened
  failed,           \* nodes whose Compute returned a non-OK Status
  termSeen,         \* the set `started` at the moment the terminate flag was set
  mem_patterns      \* Execute's tail: HasPlan(), all_tensors, and whether a pattern was cached

\* ------------------------------------------------ bounds of the session
NumThreads == 2
MaxCalls == 4
MaxRegistered == 1

Threads == 1..NumThreads
ModelIds == {1, 2}

VARIABLES
  session_mutex_,        \* holder of Impl::session_mutex_ (a thread), 0 when free
  is_model_loaded_,      \* Impl::is_model_loaded_
  is_inited_,            \* Impl::is_inited_
  model_,                \* Impl::model_: the id of the model it points to, 0 = null
  execution_providers_,  \* Impl::execution_providers_, in registration order
  transformers_,         \* graph_transformation_mgr_.transformers_
  custom_schema_registries_,  \* Impl::custom_schema_registries_ (their number)
  kernel_registries_,    \* what kernel_registry_manager_ holds
  plan_,                 \* TRUE once session_state_ holds an execution plan
  current_num_runs_,     \* Impl::current_num_runs_
  call,                  \* per thread: the call it is in
  returned,              \* the call that returned last, with its result
  ncalls,                \* number of calls started so far
  pipeline               \* how often CreatePlan was entered, how often Initialize succeeded,
                         \* and how many Runs ended in a caught exception

sessionStateVars == <<execution_providers_, transformers_, custom_schema_registries_,
                      kernel_registries_, plan_>>

sessionVars == <<session_mutex_, is_model_loaded_, is_inited_, model_, sessionStateVars,
                 current_num_runs_, call, returned, ncalls, pipeline>>

NoSnapshot == [loaded |-> FALSE, inited |-> FALSE, model |-> 0, failed_runs |-> 0]
NotRun == [on_run_start |-> 0, executor |-> FALSE, kernels |-> FALSE, on_run_end |-> 0,
           fetches |-> <<>>]
NoCall == [op |-> "none", pc |-> "idle", arg |-> 0, outcome |-> "none", retval |-> "none",
           raced |-> FALSE, pre |-> NoSnapshot, ran |-> NotRun, by |-> 0]

SessionIdle ==
  /\ session_mutex_ = 0
  /\ is_model_loaded_ = FALSE
  /\ is_inited_ = FALSE
  /\ model_ = 0
  /\ execution_providers_ = <<>>
  /\ transformers_ = <<>>
  /\ custom_schema_registries_ = 0
  /\ kernel_registries_ = [custom |-> 0, providers |-> {}]
  /\ plan_ = FALSE
  /\ current_num_runs_ = 0
  /\ call = [t \in Threads |-> NoCall]
  /\ returned = NoCall
  /\ ncalls = 0
  /\ pipeline = [entered |-> 0, completed |-> 0, failed_runs |-> 0]

\* --------------------------------- one call of CopyOutputsAcrossDevices
MaxFetches == 2

VARIABLES
  cp_providers,     \* execution_providers_ during the call
  cp_fetches,       \* the argument fetches: what the executor fetched
  cp_user_fetches,  \* the argument user_fetches, written by the loop
  cp_given,         \* user_fetches as the caller passed it
  cp_idx,           \* the loop index idx (from 1)
  cp_status         \* "idle", "running", or the Status returned

copyVars == <<cp_providers, cp_fetches, cp_user_fetches, cp_given, cp_idx, cp_status>>

CopyIdle ==
  /\ cp_providers = <<>>
  /\ cp_fetches = <<>>
  /\ cp_user_fetches = <<>>
  /\ cp_given = <<>>
  /\ cp_idx = 0
  /\ cp_status = "idle"

\* ------------------------------------ one call of GraphTransformerManager::ApplyAll
MaxSteps == 3
MaxTransformers == 2

VARIABLES
  rw_steps_,         \* GraphTransformerManager::steps_
  rw_transformers_,  \* GraphTransformerManager::transformers_: the kind of each
  rw_graph,          \* the graph being rewritten: whether it holds the node the rules add and remove
  rw_pc,             \* "idle", "loop" (head of the pass loop), "pass" (inside a pass), "done"
  rw_step,           \* the pass counter of the loop
  rw_idx,            \* the transformer the pass is at (from 1)
  rw_changed,        \* whether a transformer of the current pass reported a modification
  rw_status,         \* the Status returned, "none" before
  rw_passes,         \* passes completed or aborted so far
  rw_applied         \* calls of GraphTransformer::Apply so far

rewriterVars == <<rw_steps_, rw_transformers_, rw_graph, rw_pc, rw_step, rw_idx, rw_changed,
                  rw_status, rw_passes, rw_applied>>

RewriterIdle ==
  /\ rw_steps_ = 0
  /\ rw_transformers_ = <<>>
  /\ rw_graph = 0
  /\ rw_pc = "idle"
  /\ rw_step = 0
  /\ rw_idx = 0
  /\ rw_changed = FALSE
  /\ rw_status = "none"
  /\ rw_passes = 0
  /\ rw_applied = 0

\* ------------------------------------ one call of ConvBNFusion/ConvMulFusion::Apply
MaxGraphNodes == 5

VARIABLES
  fu_op,             \* node -> its OpType: "Conv", "X" (BatchNormalization or Mul), "Other"
  fu_schema,         \* node -> what its Op() and Domain() give: deprecated, since_version, domain
  fu_edges,          \* the output edges as built by the last Resolve
  fu_live,           \* the nodes graph.GetNode finds; a removed node's edges stay until Resolve
  fu_input_defs,     \* node -> the nodes whose output its input definitions name
  fu_fused,          \* the Conv nodes whose initializers were replaced by fused ones
  fu_it,             \* position of the loop over graph.Nodes()
  fu_pc,             \* "idle", "scan", "rewire", "done"
  fu_pair,           \* the pair (conv_node, next node) being fused
  fu_todo,           \* output nodes of the next node still to be visited by the rewiring loop
  fu_removed_nodes,  \* the local removed_nodes
  fu_modified,       \* the out-parameter modified
  fu_resolved,       \* whether Apply has called graph.Resolve()
  fu_status          \* the Status returned, "none" before

fusionVars == <<fu_op, fu_schema, fu_edges, fu_live, fu_input_defs, fu_fused, fu_it, fu_pc,
                fu_pair, fu_todo, fu_removed_nodes, fu_modified, fu_resolved, fu_status>>

FusionIdle ==
  /\ fu_op = <<>>
  /\ fu_schema = <<>>
  /\ fu_edges = {}
  /\ fu_live = {}
  /\ fu_input_defs = <<>>
  /\ fu_fused = {}
  /\ fu_it = 0
  /\ fu_pc = "idle"
  /\ fu_pair = <<0, 0>>
  /\ fu_todo = <<>>
  /\ fu_removed_nodes = <<>>
  /\ fu_modified = FALSE
  /\ fu_resolved = FALSE
  /\ fu_status = "none"

\* ---------------------- the initializers of one Conv -> X pair under a Conv fusion
MaxChannels == 2
KernelSize == 2

VARIABLES
  cv_conv,    \* the Conv node: inputs_size (2, or 3 with a bias), W and B (the tensors its inputs name)
  cv_bn,      \* the BatchNormalization node: epsilon, and the tensors scale, B, mean, var
  cv_mul_B,   \* the tensor the second input of the Mul node names
  cv_new,     \* the Conv's initializers W and B after Apply
  cv_fused,   \* whether Apply replaced the initializers
  cv_pc       \* "idle", "start", "done"

convVars == <<cv_conv, cv_bn, cv_mul_B, cv_new, cv_fused, cv_pc>>

\* No tensor: the name is not an initializer of the graph (GetInitializedTensor
\* leaves the pointer null), or the Conv has no such input.
NoTensor == [data_type |-> "none", dims |-> <<>>, data |-> <<>>]

ConvIdle ==
  /\ cv_conv = [inputs_size |-> 0, W |-> NoTensor, B |-> NoTensor]
  /\ cv_bn = [epsilon |-> 0, scale |-> NoTensor, B |-> NoTensor, mean |-> NoTensor,
              var |-> NoTensor]
  /\ cv_mul_B = NoTensor
  /\ cv_new = [W |-> NoTensor, B |-> NoTensor]
  /\ cv_fused = FALSE
  /\ cv_pc = "idle"

\* ------------------------------- EliminateIdentity::Apply on the nodes of a graph
MaxRuleNodes == 3

VARIABLES
  id_op,        \* node -> "Identity" or "Other"
  id_input,     \* node -> what InputDefs()[0] names: 0 the graph input, k the output of node k
  id_given,     \* id_input as the graph had it before the transformer ran
  id_outputs,   \* the declared graph outputs: k for the output of node k
  id_live,      \* the nodes of the graph
  id_it,        \* the node the rule-based transformer is at
  id_modified,  \* the out-parameter modified
  id_pc         \* "idle", "scan", "done"

identityVars == <<id_op, id_input, id_given, id_outputs, id_live, id_it, id_modified, id_pc>>

IdentityIdle ==
  /\ id_op = <<>>
  /\ id_input = <<>>
  /\ id_given = <<>>
  /\ id_outputs = {}
  /\ id_live = {}
  /\ id_it = 0
  /\ id_modified = FALSE
  /\ id_pc = "idle"

\* ----------------------------------------- EliminateSlice on one Slice node
MaxRank == 2
MaxDim == 2

VARIABLES
  sl_dims,      \* the shape of the Slice's input
  sl_node,      \* the Slice node: single_in_out, and the attributes starts, ends, axes
  sl_removed,   \* whether the node was removed from the graph
  sl_modified,  \* the out-parameter modified
  sl_pc         \* "idle", "start", "done"

sliceVars == <<sl_dims, sl_node, sl_removed, sl_modified, sl_pc>>

SliceIdle ==
  /\ sl_dims = <<>>
  /\ sl_node = <<>>
  /\ sl_removed = FALSE
  /\ sl_modified = FALSE
  /\ sl_pc = "idle"

\* ------------------------- the GraphTransformerManager of one InferenceSession
MaxUserTransformers == 3

VARIABLES
  gm_options,        \* session_options_: max_num_graph_transformation_steps, enable_default_transformers
  gm_steps_,         \* GraphTransformerManager::steps_
  gm_transformers_,  \* GraphTransformerManager::transformers_: name and rules of each
  gm_user,           \* the transformers the user registered, in the order of the calls
  gm_pc              \* "idle", "new" (before the constructor), "built"

managerVars == <<gm_options, gm_steps_, gm_transformers_, gm_user, gm_pc>>

ManagerIdle ==
  /\ gm_options = <<>>
  /\ gm_steps_ = 0
  /\ gm_transformers_ = <<>>
  /\ gm_user = <<>>
  /\ gm_pc = "idle"

\* ------------------------------------- one call of ReverseSequence::Compute
MaxSeqRank == 3
MaxSeqDim == 3

VARIABLES
  rs_dims,         \* input.Shape().GetDims()
  rs_batch_axis_,  \* ReverseSequence::batch_axis_
  rs_seq_axis_,    \* ReverseSequence::seq_axis_
  rs_seq_lengths,  \* the input seq_lengths: its dims and its data
  rs_y,            \* the output data: offset -> the offset of the input element it holds
  rs_status        \* "idle", "none" (before the call), "OK", or "FAIL" (ONNXRUNTIME_ENFORCE threw)

reverseVars == <<rs_dims, rs_batch_axis_, rs_seq_axis_, rs_seq_lengths, rs_y, rs_status>>

ReverseIdle ==
  /\ rs_dims = <<>>
  /\ rs_batch_axis_ = 0
  /\ rs_seq_axis_ = 0
  /\ rs_seq_lengths = <<>>
  /\ rs_y = <<>>
  /\ rs_status = "idle"

\* ------------------------------------------ one call of CustomSlice::Compute
VARIABLES
  cs_dims,         \* input_tensor.Shape().GetDims(); the element at offset o is o + 1
  cs_starts,       \* the data of the input starts
  cs_ends,         \* the data of the input ends
  cs_axes,         \* the optional input axes: absent, or its data
  cs_output_dims,  \* the shape of the output
  cs_output,       \* the data of the output
  cs_status        \* "idle", "none" (before the call), "OK", or "FAIL"

customSliceVars == <<cs_dims, cs_starts, cs_ends, cs_axes, cs_output_dims, cs_output, cs_status>>

CustomSliceIdle ==
  /\ cs_dims = <<>>
  /\ cs_starts = <<>>
  /\ cs_ends = <<>>
  /\ cs_axes = <<>>
  /\ cs_output_dims = <<>>
  /\ cs_output = <<>>
  /\ cs_status = "idle"

\* ------------------- the initializers of a graph across one Conv fusion
VARIABLES
  sh_kind,          \* the node after the Conv: "BatchNormalization" or "Mul"
  sh_initializers,  \* the graph's initializers: name -> tensor
  sh_before,        \* the initializers when Apply was called
  sh_conv_inputs,   \* the names of the Conv's input definitions
  sh_next_inputs,   \* the names of the next node's input definitions
  sh_other_inputs,  \* the names of the input definitions of another node of the graph
  sh_pc             \* "idle", "start", "done"

shareVars == <<sh_kind, sh_initializers, sh_before, sh_conv_inputs, sh_next_inputs,
               sh_other_inputs, sh_pc>>

ShareIdle ==
  /\ sh_kind = "none"
  /\ sh_initializers = <<>>
  /\ sh_before = <<>>
  /\ sh_conv_inputs = <<>>
  /\ sh_next_inputs = <<>>
  /\ sh_other_inputs = {}
  /\ sh_pc = "idle"

\* ----------------------------- the thread pool and the executor of a session
MaxPoolSize == 2
MaxHardwareThreads == 4
MaxTasks == 2

VARIABLES
  tp_session_options,       \* enable_sequential_execution and session_thread_pool_size
  tp_hardware_concurrency,  \* what std::thread::hardware_concurrency() returns
  tp_thread_pool_,          \* Impl::thread_pool_: whether it was created, and its number of workers
  tp_p_exec,                \* the executor Run created: "none", "SequentialExecutor", "ParallelExecutor"
  tp_tasks,                 \* the tasks handed to the pool by RunTask and not yet run
  tp_ran,                   \* the number of nodes that ran
  tp_pc                     \* "idle", "new", "constructed", "run"

poolVars == <<tp_session_options, tp_hardware_concurrency, tp_thread_pool_, tp_p_exec,
              tp_tasks, tp_ran, tp_pc>>

NoPool == [created |-> FALSE, workers |-> 0]

PoolIdle ==
  /\ tp_session_options = <<>>
  /\ tp_hardware_concurrency = 0
  /\ tp_thread_pool_ = NoPool
  /\ tp_p_exec = "none"
  /\ tp_tasks = 0
  /\ tp_ran = 0
  /\ tp_pc = "idle"

\* ------------------------------- the requested outputs and the nodes' providers
VARIABLES
  mo_providers,     \* execution_providers_ of the session
  mo_nodes,         \* the graph's nodes in order: provider type and output defs
  mo_output_names,  \* the names Run was asked for
  mo_fetches,       \* the caller's fetches: empty, or one value per name
  mo_new_fetches,   \* what is handed to the executor
  mo_seen_outputs,  \* std::set seen_outputs at the return
  mo_status,        \* "none", "OK", "FAIL"
  mo_pc             \* "idle", "call", "done"

matchVars == <<mo_providers, mo_nodes, mo_output_names, mo_fetches, mo_new_fetches,
               mo_seen_outputs, mo_status, mo_pc>>

MatchIdle ==
  /\ mo_providers = <<>>
  /\ mo_nodes = <<>>
  /\ mo_output_names = <<>>
  /\ mo_fetches = <<>>
  /\ mo_new_fetches = <<>>
  /\ mo_seen_outputs = {}
  /\ mo_status = "none"
  /\ mo_pc = "idle"

\* laterVars: the variables of the specifications of single rules and kernels.
laterVars == <<convVars, identityVars, sliceVars, managerVars, reverseVars, customSliceVars, shareVars, poolVars, matchVars>>
LaterIdle == ConvIdle /\ IdentityIdle /\ SliceIdle /\ ManagerIdle /\ ReverseIdle /\ CustomSliceIdle /\ ShareIdle /\ PoolIdle /\ MatchIdle

\* otherVars: the variables of the specifications other than the executor's.
otherVars == <<sessionVars, copyVars, rewriterVars, fusionVars, laterVars>>
OthersIdle == SessionIdle /\ CopyIdle /\ RewriterIdle /\ FusionIdle /\ LaterIdle


executorVars == <<edges, hasKernel, node_refs_, out_standings_, terminate_flag_, ref_mutex_,
          complete_mutex_, queue, worker, mainPc, rootIt, status, fetches, frame,
          log, order, started, scheduled, edgeDone, failed, termSeen, mem_patterns>>

vars == <<executorVars, otherVars>>

nonSessionVars == <<executorVars, copyVars, rewriterVars, fusionVars, laterVars>>
nonCopyVars == <<executorVars, sessionVars, rewriterVars, fusionVars, laterVars>>
nonRewriterVars == <<executorVars, sessionVars, copyVars, fusionVars, laterVars>>
nonFusionVars == <<executorVars, sessionVars, copyVars, rewriterVars, laterVars>>
baseVars == <<executorVars, sessionVars, copyVars, rewriterVars, fusionVars>>
nonConvVars == <<baseVars, identityVars, sliceVars, managerVars, reverseVars, customSliceVars, shareVars, poolVars, matchVars>>
nonIdentityVars == <<baseVars, convVars, sliceVars, managerVars, reverseVars, customSliceVars, shareVars, poolVars, matchVars>>
nonSliceVars == <<baseVars, convVars, identityVars, managerVars, reverseVars, customSliceVars, shareVars, poolVars, matchVars>>
nonReverseVars == <<baseVars, convVars, identityVars, sliceVars, managerVars, customSliceVars, shareVars, poolVars, matchVars>>
nonManagerVars == <<baseVars, convVars, identityVars, sliceVars, reverseVars, customSliceVars, shareVars, poolVars, matchVars>>
nonCustomSliceVars == <<baseVars, convVars, identityVars, sliceVars, managerVars, reverseVars, shareVars, poolVars, matchVars>>
nonShareVars == <<baseVars, convVars, identityVars, sliceVars, managerVars, reverseVars, customSliceVars, poolVars, matchVars>>
nonPoolVars == <<baseVars, convVars, identityVars, sliceVars, managerVars, reverseVars, customSliceVars, shareVars, matchVars>>
nonMatchVars == <<baseVars, convVars, identityVars, sliceVars, managerVars, reverseVars, customSliceVars, shareVars, poolVars>>

\* ------------------------------------------------------------ the graph
Predecessors(n) == {p \in Nodes : <<p, n>> \in edges}
Successors(n) == {c \in Nodes : <<n, c>> \in edges}

\* Node::GetInputEdgesCount, as stored by the constructor.
InitialRefs_OffByOne(E, n) ==
  LET c == Cardinality({p \in Nodes : <<p, n>> \in E}) IN IF c > 1 THEN c - 1 ELSE c
InitialRefs(E, n) == Cardinality({p \in Nodes : <<p, n>> \in E})

\* GraphViewer::GetRootNodes: the nodes without input edges.
GetRootNodes == {n \in Nodes : Predecessors(n) = {}}

Min(S) == CHOOSE x \in S : \A y \in S : x <= y

RECURSIVE Sum(_, _)
Sum(f, S) == IF S = {} THEN 0 ELSE LET x == Min(S) IN f[x] + Sum(f, S \ {x})

\* A kernel's output: a function of the node and of the values it reads from the
\* frame (an input that was not produced yet reads as 0, unallocated).
KernelValue(n, fr) == n + 4 * Sum(fr, Predecessors(n))

\* The sequential executor: nodes visited in topological (index) order.
RECURSIVE SequentialValue(_)
SequentialValue(n) ==
  n + 4 * Sum([p \in Nodes |-> IF p \in Predecessors(n) THEN SequentialValue(p) ELSE 0],
              Predecessors(n))

NoPatterns == [has_plan |-> FALSE, all_tensors |-> FALSE, cached |-> FALSE]

Idle == [pc |-> "idle", node_index |-> 0, kernel |-> 0, it |-> 0, keep_running |-> FALSE]

Init ==
  /\ edges \in SUBSET EdgePairs
  /\ hasKernel \in SUBSET Nodes
  /\ node_refs_ = [n \in Nodes |-> InitialRefs(edges, n)]
  /\ out_standings_ = 0
  /\ terminate_flag_ = FALSE
  /\ ref_mutex_ = 0
  /\ complete_mutex_ = FALSE
  /\ queue = <<>>
  /\ worker = [w \in Workers |-> Idle]
  /\ mainPc = "roots"
  /\ rootIt = 0
  /\ status = "none"
  /\ fetches = [n \in Nodes |-> 0]
  /\ frame = [n \in Nodes |-> 0]
  /\ log = [n \in Nodes |-> <<>>]
  /\ order = <<>>
  /\ started = {}
  /\ scheduled = {}
  /\ edgeDone = {}
  /\ failed = {}
  /\ termSeen = {}
  /\ mem_patterns = NoPatterns
  /\ OthersIdle

\* The executor's variables while no Execute call is modelled.
ExecutorIdle ==
  /\ edges = {}
  /\ hasKernel = {}
  /\ node_refs_ = [n \in Nodes |-> 0]
  /\ out_standings_ = 0
  /\ terminate_flag_ = FALSE
  /\ ref_mutex_ = 0
  /\ complete_mutex_ = FALSE
  /\ queue = <<>>
  /\ worker = [w \in Workers |-> Idle]
  /\ mainPc = "done"
  /\ rootIt = 0
  /\ status = "none"
  /\ fetches = [n \in Nodes |-> 0]
  /\ frame = [n \in Nodes |-> 0]
  /\ log = [n \in Nodes |-> <<>>]
  /\ order = <<>>
  /\ started = {}
  /\ scheduled = {}
  /\ edgeDone = {}
  /\ failed = {}
  /\ termSeen = {}
  /\ mem_patterns = NoPatterns

NonSessionIdle == ExecutorIdle /\ CopyIdle /\ RewriterIdle /\ FusionIdle /\ LaterIdle
BaseIdle == ExecutorIdle /\ SessionIdle /\ CopyIdle /\ RewriterIdle /\ FusionIdle

\* ------------------------------------------------- EnqueueNode / FinishNodeRun
\* ParallelExecutor::EnqueueNode: out_standings_++ under complete_mutex_, then the
\* task is handed to the thread pool.
EnqueueNode_NoRunTask(idx) ==
  /\ ~complete_mutex_
  /\ out_standings_' = out_standings_ + 1
  /\ queue' = queue
EnqueueNode(idx) ==
  /\ ~complete_mutex_
  /\ out_standings_' = out_standings_ + 1
  /\ queue' = Append(queue, idx)

\* ParallelExecutor::FinishNodeRun: decrement out_standings_ and, at zero, signal
\* complete_cv_; the waiter sleeping on it is made runnable.  The step is taken
\* inside complete_mutex_, the critical section the waiter tests and sleeps in.
FinishNodeRun ==
  /\ ~complete_mutex_
  /\ out_standings_' = out_standings_ - 1
  /\ mainPc' = IF out_standings_ - 1 = 0 /\ mainPc = "waiting" THEN "wakeup" ELSE mainPc

\* ------------------------------------------------------------------ Execute
NextRoots == {n \in GetRootNodes : n > rootIt}

\* for (node_index : GetRootNodes()) { if (!p_op_kernel) continue; ... }
ExecuteSkipRoot ==
  /\ mainPc = "roots" /\ NextRoots # {}
  /\ Min(NextRoots) \notin hasKernel
  /\ rootIt' = Min(NextRoots)
  /\ UNCHANGED <<otherVars, mem_patterns, edges, hasKernel, node_refs_, out_standings_, terminate_flag_, ref_mutex_,
                 complete_mutex_, queue, worker, mainPc, status, fetches, frame, log,
                 order, started, scheduled, edgeDone, failed, termSeen>>

\* ... EnqueueNode(node_index, session_state, logger);
ExecuteEnqueueRoot ==
  /\ mainPc = "roots" /\ NextRoots # {}
  /\ Min(NextRoots) \in hasKernel
  /\ EnqueueNode(Min(NextRoots))
  /\ rootIt' = Min(NextRoots)
  /\ scheduled' = scheduled \cup {Min(NextRoots)}
  /\ UNCHANGED <<otherVars, mem_patterns, edges, hasKernel, node_refs_, terminate_flag_, ref_mutex_,
                 complete_mutex_, worker, mainPc, status, fetches, frame, log,
                 order, started, edgeDone, failed, termSeen>>

\* std::unique_lock<std::mutex> lock(complete_mutex_);
ExecuteLock ==
  /\ \/ mainPc = "roots" /\ NextRoots = {}
     \/ mainPc = "wakeup"
  /\ ~complete_mutex_
  /\ complete_mutex_' = TRUE
  /\ mainPc' = "test"
  /\ UNCHANGED <<otherVars, mem_patterns, edges, hasKernel, node_refs_, out_standings_, terminate_flag_, ref_mutex_,
                 queue, worker, rootIt, status, fetches, frame, log,
                 order, started, scheduled, edgeDone, failed, termSeen>>

\* while (out_standings_ > 0): the loop condition of the wait.
MustWait_MoreThanOne(n) == n > 1
MustWait(n) == n > 0

\* ... the test, made while holding complete_mutex_.
ExecuteTest ==
  /\ mainPc = "test"
  /\ IF MustWait(out_standings_)
       THEN mainPc' = "wait" /\ UNCHANGED complete_mutex_
       ELSE mainPc' = "fetch" /\ complete_mutex_' = FALSE
  /\ UNCHANGED <<otherVars, mem_patterns, edges, hasKernel, node_refs_, out_standings_, terminate_flag_, ref_mutex_,
                 queue, worker, rootIt, status, fetches, frame, log,
                 order, started, scheduled, edgeDone, failed, termSeen>>

\* complete_cv_.wait(lock): releases the mutex and sleeps until notified.
ExecuteWait ==
  /\ mainPc = "wait"
  /\ complete_mutex_' = FALSE
  /\ mainPc' = "waiting"
  /\ UNCHANGED <<otherVars, mem_patterns, edges, hasKernel, node_refs_, out_standings_, terminate_flag_, ref_mutex_,
                 queue, worker, rootIt, status, fetches, frame, log,
                 order, started, scheduled, edgeDone, failed, termSeen>>

\* ParallelExecutor::FetchOutput: fetches[idx++] = frame.GetMLValue(...), OK.
FetchOutput(fr) == fr

\* The tail of Execute: when the frame has a plan and every feed is a tensor, the
\* patterns are generated and handed to UpdateMemoryPatternGroupCache.
GeneratesPatterns(has_plan, all_tensors) == has_plan /\ all_tensors

\* FetchOutput, the memory patterns, then return Status::OK().  Whether the frame
\* has a plan and whether every feed is a tensor are properties of the call's
\* arguments; they are drawn here, where Execute first reads them.
ExecuteFetch ==
  /\ mainPc = "fetch"
  /\ fetches' = FetchOutput(frame)
  /\ \E has_plan \in BOOLEAN, all_tensors \in BOOLEAN :
       mem_patterns' = [has_plan |-> has_plan, all_tensors |-> all_tensors,
                        cached |-> GeneratesPatterns(has_plan, all_tensors)]
  /\ status' = "OK"
  /\ mainPc' = "done"
  /\ UNCHANGED <<otherVars, edges, hasKernel, node_refs_, out_standings_, terminate_flag_, ref_mutex_,
                 complete_mutex_, queue, worker, rootIt, frame, log,
                 order, started, scheduled, edgeDone, failed, termSeen>>

\* The caller sets RunOptions::terminate from another thread while Execute runs.
SetTerminate ==
  /\ ~terminate_flag_
  /\ mainPc # "done"
  /\ terminate_flag_' = TRUE
  /\ termSeen' = started
  /\ UNCHANGED <<otherVars, mem_patterns, edges, hasKernel, node_refs_, out_standings_, ref_mutex_,
                 complete_mutex_, queue, worker, mainPc, rootIt, status, fetches, frame, log,
                 order, started, scheduled, edgeDone, failed>>

\* ------------------------------------------------------------------ workers
\* The thread pool: an idle worker takes the oldest task and calls RunNodeAsync.
PickTask(w) ==
  /\ worker[w].pc = "idle"
  /\ queue # <<>>
  /\ worker' = [worker EXCEPT ![w] = [pc |-> "check", node_index |-> Head(queue),
                                      kernel |-> 0, it |-> 0, keep_running |-> TRUE]]
  /\ queue' = Tail(queue)
  /\ UNCHANGED <<otherVars, mem_patterns, edges, hasKernel, node_refs_, out_standings_, terminate_flag_, ref_mutex_,
                 complete_mutex_, mainPc, rootIt, status, fetches, frame, log,
                 order, started, scheduled, edgeDone, failed, termSeen>>

\* if (terminate_flag_) ONNXRUNTIME_THROW(...)
ThrowTerminated(w) ==
  /\ worker[w].pc = "check"
  /\ terminate_flag_
  /\ worker' = [worker EXCEPT ![w].pc = "catch"]
  /\ UNCHANGED <<otherVars, mem_patterns, edges, hasKernel, node_refs_, out_standings_, terminate_flag_, ref_mutex_,
                 complete_mutex_, queue, mainPc, rootIt, status, fetches, frame, log,
                 order, started, scheduled, edgeDone, failed, termSeen>>

\* if (p_op_kernel == nullptr) ONNXRUNTIME_THROW(...)
ThrowNoKernel(w) ==
  /\ worker[w].pc = "check"
  /\ ~terminate_flag_
  /\ worker[w].node_index \notin hasKernel
  /\ worker' = [worker EXCEPT ![w].pc = "catch"]
  /\ UNCHANGED <<otherVars, mem_patterns, edges, hasKernel, node_refs_, out_standings_, terminate_flag_, ref_mutex_,
                 complete_mutex_, queue, mainPc, rootIt, status, fetches, frame, log,
                 order, started, scheduled, edgeDone, failed, termSeen>>

\* The loop head passed: p_op_kernel = GetKernel(node_index), the context is built.
BeginNode(w) ==
  /\ worker[w].pc = "check"
  /\ ~terminate_flag_
  /\ worker[w].node_index \in hasKernel
  /\ worker' = [worker EXCEPT ![w].pc = "before_input",
                              ![w].kernel = worker[w].node_index]
  /\ started' = started \cup {worker[w].node_index}
  /\ UNCHANGED <<otherVars, mem_patterns, edges, hasKernel, node_refs_, out_standings_, terminate_flag_, ref_mutex_,
                 complete_mutex_, queue, mainPc, rootIt, status, fetches, frame, log,
                 order, scheduled, edgeDone, failed, termSeen>>

\* The positions of one loop iteration, in the order of the code, and the fence
\* observation (or kernel call) made at each.
StepOf_WrongOutputCall(pc) ==
  CASE pc = "before_input"          -> [ev |-> "BeforeUsingAsInput",         next |-> "before_implicit_input"]
    [] pc = "before_implicit_input" -> [ev |-> "BeforeUsingAsInput_implicit", next |-> "before_output"]
    [] pc = "before_output"         -> [ev |-> "AfterUsedAsOutput",          next |-> "compute"]
    [] pc = "after_input"           -> [ev |-> "AfterUsedAsInput",           next |-> "after_implicit_input"]
    [] pc = "after_implicit_input"  -> [ev |-> "AfterUsedAsInput_implicit",  next |-> "after_output"]
    [] pc = "after_output"          -> [ev |-> "AfterUsedAsOutput",          next |-> "lock_ref"]
StepOf(pc) ==
  CASE pc = "before_input"          -> [ev |-> "BeforeUsingAsInput",         next |-> "before_implicit_input"]
    [] pc = "before_implicit_input" -> [ev |-> "BeforeUsingAsInput_implicit", next |-> "before_output"]
    [] pc = "before_output"         -> [ev |-> "BeforeUsingAsOutput",        next |-> "compute"]
    [] pc = "after_input"           -> [ev |-> "AfterUsedAsInput",           next |-> "after_implicit_input"]
    [] pc = "after_implicit_input"  -> [ev |-> "AfterUsedAsInput_implicit",  next |-> "after_output"]
    [] pc = "after_output"          -> [ev |-> "AfterUsedAsOutput",          next |-> "lock_ref"]

FencePcs == {"before_input", "before_implicit_input", "before_output",
             "after_input", "after_implicit_input", "after_output"}

\* One of the six fence loops of RunNodeAsyncInternal.
FenceStep(w) ==
  /\ worker[w].pc \in FencePcs
  /\ log' = [log EXCEPT ![worker[w].kernel] = Append(@, StepOf(worker[w].pc).ev)]
  /\ worker' = [worker EXCEPT ![w].pc = StepOf(worker[w].pc).next]
  /\ UNCHANGED <<otherVars, mem_patterns, edges, hasKernel, node_refs_, out_standings_, terminate_flag_, ref_mutex_,
                 complete_mutex_, queue, mainPc, rootIt, status, fetches, frame,
                 order, started, scheduled, edgeDone, failed, termSeen>>

\* auto status = p_op_kernel->Compute(&op_kernel_context); OK.
ComputeOK_SkipAfter(w) ==
  /\ worker[w].pc = "compute"
  /\ log' = [log EXCEPT ![worker[w].kernel] = Append(@, "Compute")]
  /\ frame' = [frame EXCEPT ![worker[w].kernel] = KernelValue(worker[w].kernel, frame)]
  /\ order' = Append(order, worker[w].kernel)
  /\ worker' = [worker EXCEPT ![w].pc = "lock_ref"]
  /\ UNCHANGED <<otherVars, mem_patterns, edges, hasKernel, node_refs_, out_standings_, terminate_flag_, ref_mutex_,
                 complete_mutex_, queue, mainPc, rootIt, status, fetches,
                 started, scheduled, edgeDone, failed, termSeen>>
ComputeOK(w) ==
  /\ worker[w].pc = "compute"
  /\ log' = [log EXCEPT ![worker[w].kernel] = Append(@, "Compute")]
  /\ frame' = [frame EXCEPT ![worker[w].kernel] = KernelValue(worker[w].kernel, frame)]
  /\ order' = Append(order, worker[w].kernel)
  /\ worker' = [worker EXCEPT ![w].pc = "after_input"]
  /\ UNCHANGED <<otherVars, mem_patterns, edges, hasKernel, node_refs_, out_standings_, terminate_flag_, ref_mutex_,
                 complete_mutex_, queue, mainPc, rootIt, status, fetches,
                 started, scheduled, edgeDone, failed, termSeen>>

\* if (!status.IsOK()) ONNXRUNTIME_THROW("Compute failed for node: ", ...)
ComputeFail(w) ==
  /\ worker[w].pc = "compute"
  /\ log' = [log EXCEPT ![worker[w].kernel] = Append(@, "Compute")]
  /\ failed' = failed \cup {worker[w].kernel}
  /\ worker' = [worker EXCEPT ![w].pc = "catch"]
  /\ UNCHANGED <<otherVars, mem_patterns, edges, hasKernel, node_refs_, out_standings_, terminate_flag_, ref_mutex_,
                 complete_mutex_, queue, mainPc, rootIt, status, fetches, frame,
                 order, started, scheduled, edgeDone, termSeen>>

\* keep_running = false; std::lock_guard<std::mutex> lock(ref_mutex_);
LockRef(w) ==
  /\ worker[w].pc = "lock_ref"
  /\ ref_mutex_ = 0
  /\ ref_mutex_' = w
  /\ worker' = [worker EXCEPT ![w].pc = "edges", ![w].keep_running = FALSE, ![w].it = 0]
  /\ UNCHANGED <<otherVars, mem_patterns, edges, hasKernel, node_refs_, out_standings_, terminate_flag_,
                 complete_mutex_, queue, mainPc, rootIt, status, fetches, frame, log,
                 order, started, scheduled, edgeDone, failed, termSeen>>

\* The output edges of p_op_kernel's node not yet visited by the iterator.
EdgesLeft(w) == {c \in Successors(worker[w].kernel) : c > worker[w].it}

\* if ((--node_refs_[idx]) == 0): is the successor ready after this decrement?
ReadyAfterDecrement_AtOne(refs, idx) == refs[idx] - 1 <= 1
ReadyAfterDecrement(refs, idx) == refs[idx] - 1 = 0

\* One iteration of the loop over the output edges: the decrement alone.
EdgeDecrement(w) ==
  /\ worker[w].pc = "edges" /\ EdgesLeft(w) # {}
  /\ LET idx == Min(EdgesLeft(w)) IN
       /\ ~ReadyAfterDecrement(node_refs_, idx)
       /\ node_refs_' = [node_refs_ EXCEPT ![idx] = @ - 1]
       /\ edgeDone' = edgeDone \cup {<<worker[w].kernel, idx>>}
       /\ worker' = [worker EXCEPT ![w].it = idx]
  /\ UNCHANGED <<otherVars, mem_patterns, edges, hasKernel, out_standings_, terminate_flag_, ref_mutex_,
                 complete_mutex_, queue, mainPc, rootIt, status, fetches, frame, log,
                 order, started, scheduled, failed, termSeen>>

\* ... the decrement reaches zero and keep_running is false: the successor is adopted.
EdgeAdopt_CountsTask(w) ==
  /\ worker[w].pc = "edges" /\ EdgesLeft(w) # {}
  /\ LET idx == Min(EdgesLeft(w)) IN
       /\ ReadyAfterDecrement(node_refs_, idx)
       /\ ~worker[w].keep_running
       /\ node_refs_' = [node_refs_ EXCEPT ![idx] = @ - 1]
       /\ edgeDone' = edgeDone \cup {<<worker[w].kernel, idx>>}
       /\ scheduled' = scheduled \cup {idx}
       /\ out_standings_' = out_standings_ + 1
       /\ worker' = [worker EXCEPT ![w].it = idx, ![w].node_index = idx,
                                   ![w].keep_running = TRUE]
  /\ UNCHANGED <<otherVars, mem_patterns, edges, hasKernel, terminate_flag_, ref_mutex_,
                 complete_mutex_, queue, mainPc, rootIt, status, fetches, frame, log,
                 order, started, failed, termSeen>>
EdgeAdopt(w) ==
  /\ worker[w].pc = "edges" /\ EdgesLeft(w) # {}
  /\ LET idx == Min(EdgesLeft(w)) IN
       /\ ReadyAfterDecrement(node_refs_, idx)
       /\ ~worker[w].keep_running
       /\ node_refs_' = [node_refs_ EXCEPT ![idx] = @ - 1]
       /\ edgeDone' = edgeDone \cup {<<worker[w].kernel, idx>>}
       /\ scheduled' = scheduled \cup {idx}
       /\ worker' = [worker EXCEPT ![w].it = idx, ![w].node_index = idx,
                                   ![w].keep_running = TRUE]
  /\ UNCHANGED <<otherVars, mem_patterns, edges, hasKernel, out_standings_, terminate_flag_, ref_mutex_,
                 complete_mutex_, queue, mainPc, rootIt, status, fetches, frame, log,
                 order, started, failed, termSeen>>

\* ... the decrement reaches zero and a successor was adopted already: EnqueueNode.
EdgeEnqueue(w) ==
  /\ worker[w].pc = "edges" /\ EdgesLeft(w) # {}
  /\ LET idx == Min(EdgesLeft(w)) IN
       /\ ReadyAfterDecrement(node_refs_, idx)
       /\ worker[w].keep_running
       /\ node_refs_' = [node_refs_ EXCEPT ![idx] = @ - 1]
       /\ edgeDone' = edgeDone \cup {<<worker[w].kernel, idx>>}
       /\ scheduled' = scheduled \cup {idx}
       /\ EnqueueNode(idx)
       /\ worker' = [worker EXCEPT ![w].it = idx]
  /\ UNCHANGED <<otherVars, mem_patterns, edges, hasKernel, terminate_flag_, ref_mutex_,
                 complete_mutex_, mainPc, rootIt, status, fetches, frame, log,
                 order, started, failed, termSeen>>

\* The end of the locked block: back to the loop head with the adopted node, or out
\* of the loop to FinishNodeRun.
EdgesDone(w) ==
  /\ worker[w].pc = "edges" /\ EdgesLeft(w) = {}
  /\ ref_mutex_' = 0
  /\ worker' = [worker EXCEPT ![w].pc = IF worker[w].keep_running THEN "check" ELSE "finish"]
  /\ UNCHANGED <<otherVars, mem_patterns, edges, hasKernel, node_refs_, out_standings_, terminate_flag_,
                 complete_mutex_, queue, mainPc, rootIt, status, fetches, frame, log,
                 order, started, scheduled, edgeDone, failed, termSeen>>

\* RunNodeAsyncInternal's last statement: FinishNodeRun(); the task ends.
FinishTask(w) ==
  /\ worker[w].pc = "finish"
  /\ FinishNodeRun
  /\ worker' = [worker EXCEPT ![w] = Idle]
  /\ UNCHANGED <<otherVars, mem_patterns, edges, hasKernel, node_refs_, terminate_flag_, ref_mutex_,
                 complete_mutex_, queue, rootIt, status, fetches, frame, log,
                 order, started, scheduled, edgeDone, failed, termSeen>>

\* RunNodeAsync: catch (...) { FinishNodeRun(); throw; } - the rethrown exception
\* ends the task inside the pool.
CatchEffect_NoFinish == UNCHANGED <<out_standings_, mainPc>>
CatchEffect == FinishNodeRun

CatchAndRethrow(w) ==
  /\ worker[w].pc = "catch"
  /\ CatchEffect
  /\ worker' = [worker EXCEPT ![w] = Idle]
  /\ UNCHANGED <<otherVars, mem_patterns, edges, hasKernel, node_refs_, terminate_flag_, ref_mutex_,
                 complete_mutex_, queue, rootIt, status, fetches, frame, log,
                 order, started, scheduled, edgeDone, failed, termSeen>>

WorkerStep(w) ==
  \/ PickTask(w)
  \/ ThrowTerminated(w)
  \/ ThrowNoKernel(w)
  \/ BeginNode(w)
  \/ FenceStep(w)
  \/ ComputeOK(w)
  \/ ComputeFail(w)
  \/ LockRef(w)
  \/ EdgeDecrement(w)
  \/ EdgeAdopt(w)
  \/ EdgeEnqueue(w)
  \/ EdgesDone(w)
  \/ FinishTask(w)
  \/ CatchAndRethrow(w)

ExecuteStep ==
  \/ ExecuteSkipRoot
  \/ ExecuteEnqueueRoot
  \/ ExecuteLock
  \/ ExecuteTest
  \/ ExecuteWait
  \/ ExecuteFetch

Next ==
  \/ ExecuteStep
  \/ SetTerminate
  \/ \E w \in Workers : WorkerStep(w)

Spec == Init /\ [][Next]_vars

\* The thread pool runs every worker that can take a step, and the caller's thread
\* runs; nobody is obliged to set the terminate flag.
FairSpec ==
  /\ Spec
  /\ WF_vars(ExecuteStep)
  /\ \A w \in Workers : WF_vars(WorkerStep(w))

\* ------------------------------------------------------- derived notions
Range(q) == {q[i] : i \in 1..Len(q)}
\* The nodes whose kernel returned OK.
Completed == Range(order)
Has(l, ev) == \E i \in 1..Len(l) : l[i] = ev
Count(l, ev) == Cardinality({i \in 1..Len(l) : l[i] = ev})
IsPrefix(a, b) == Len(a) <= Len(b) /\ \A i \in 1..Len(a) : a[i] = b[i]
Busy == {w \in Workers : worker[w].pc # "idle"}
\* A run in which every node has a kernel, no kernel failed and terminate is not set.
CleanRun == hasKernel = Nodes /\ failed = {} /\ ~terminate_flag_
\* As CleanRun, without the condition on the kernels.
NoFailureNoTermination == failed = {} /\ ~terminate_flag_

\* The events of one node, in the order of the claim.
NodeEvents == <<"BeforeUsingAsInput", "BeforeUsingAsInput_implicit", "BeforeUsingAsOutput",
                "Compute",
                "AfterUsedAsInput", "AfterUsedAsInput_implicit", "AfterUsedAsOutput">>

\* ------------------------------------------------------------------ claims

\* C1: node_refs_[n] is the node's input-edge count less the decrements made for its
\* completed incoming edges; an edge is decremented only after its producer's kernel
\* completed; a node with predecessors is adopted or enqueued exactly when its counter
\* is zero; and a node is started only after all its predecessors completed.
C1_StartOnlyAfterPredecessors ==
  /\ \A n \in Nodes :
       node_refs_[n] = Cardinality(Predecessors(n)) - Cardinality({e \in edgeDone : e[2] = n})
  /\ \A e \in edgeDone : e[1] \in Completed
  /\ \A n \in Nodes : Predecessors(n) # {} => (n \in scheduled <=> node_refs_[n] = 0)
  /\ started \subseteq scheduled
  /\ \A n \in Nodes : (n \in started \/ log[n] # <<>>) => Predecessors(n) \subseteq Completed

C1_Witness == \E n \in started : Cardinality(Predecessors(n)) >= 2

\* C2: in a run with a kernel for every node, no failure and no termination, no kernel
\* runs twice, the completion order is a topological order, and when Execute has
\* returned every kernel ran exactly once and the fetches are those of the sequential
\* executor.
C2_ParallelRunIsSequentialRun ==
  CleanRun =>
    /\ \A i, j \in 1..Len(order) : order[i] = order[j] => i = j
    /\ \A i \in 1..Len(order) : \A p \in Predecessors(order[i]) :
         \E j \in 1..(i - 1) : order[j] = p
    /\ \A n \in Nodes : Count(log[n], "Compute") <= 1
    /\ mainPc = "done" =>
         /\ Completed = Nodes
         /\ \A n \in Nodes : Count(log[n], "Compute") = 1
         /\ fetches = [n \in Nodes |-> SequentialValue(n)]

\* A finished clean run whose completion order is not the index order.
C2_Witness ==
  /\ mainPc = "done" /\ CleanRun /\ edges # {}
  /\ \E i \in 1..Len(order) : order[i] # i

\* C3 as stated: when Execute proceeds to FetchOutput in a run with no kernel failure
\* and no termination, every node that has a kernel has finished it.
C3_Original ==
  (mainPc \in {"fetch", "done"} /\ NoFailureNoTermination) => hasKernel \subseteq Completed

\* C3, amended: Execute reads the fetches only when out_standings_ is zero and no task
\* is queued or running; in a run with no failure, no termination and a kernel for
\* every node, every node has then finished its kernel and every fetch read is a
\* produced value.
C3_FetchAfterAllFinished ==
  /\ mainPc \in {"fetch", "done"} =>
       out_standings_ = 0 /\ queue = <<>> /\ Busy = {}
  /\ (mainPc \in {"fetch", "done"} /\ CleanRun) => Completed = Nodes
  /\ (mainPc = "done" /\ CleanRun) => \A n \in Nodes : fetches[n] # 0

C3_Witness == mainPc = "fetch" /\ CleanRun /\ edges # {}

\* C4: with fair workers and a fair caller, Execute returns, whatever the graph, the
\* kernels' results and the interleaving.
C4_ExecuteReturns == <>(mainPc = "done")

\* The waiter slept and was woken by the final completion.
C4_Witness == mainPc = "wakeup" /\ out_standings_ = 0 /\ Cardinality(Completed) >= 2

\* C5 as stated: a run that the terminate flag kept from starting a node returns a
\* Terminated Status.
C5_TerminatedStatus ==
  (/\ mainPc = "done" /\ terminate_flag_
   /\ hasKernel = Nodes /\ failed = {} /\ started # Nodes) => status = "Terminated"

\* C6: once terminate is set no node passes the loop head, so the nodes not started
\* then are never executed and fewer kernels run than the graph has nodes;
\* out_standings_ counts the queued and running tasks at all times (each task is
\* decremented once, abandoned or not); and Execute comes to its end with
\* out_standings_ zero and every worker idle.
C6_TerminationAbandons ==
  /\ [](out_standings_ = Len(queue) + Cardinality(Busy))
  /\ [](terminate_flag_ => /\ started \subseteq termSeen
                           /\ (termSeen # Nodes => Len(order) < Cardinality(Nodes)))
  /\ [][terminate_flag_ => started' = started]_vars
  /\ terminate_flag_ ~> (mainPc = "done" /\ out_standings_ = 0 /\ Busy = {})

\* Terminate was set while tasks were in flight and nodes unstarted, and the run ended.
C6_Witness ==
  /\ mainPc = "done" /\ terminate_flag_ /\ hasKernel = Nodes /\ failed = {}
  /\ termSeen # {} /\ termSeen # Nodes /\ out_standings_ = 0

\* C7 as stated: a run in which a kernel returned a non-OK Status does not return OK.
C7_FailureSurfaces == (mainPc = "done" /\ failed # {}) => status # "OK"

\* C8 as stated: once a kernel has failed and its worker has left the task, no other
\* worker passes a loop head.
C8_FailureStopsOthers ==
  [][(failed # {} /\ \A w \in Workers : worker[w].pc # "catch") => started' = started]_vars

\* C9: for every edge, the consumer makes no observation before the producer's After
\* observations, and the edge's decrement comes after them too.
C9_AfterBeforeConsumer ==
  \A e \in edges :
    (log[e[2]] # <<>> \/ e \in edgeDone) =>
      /\ Has(log[e[1]], "AfterUsedAsInput")
      /\ Has(log[e[1]], "AfterUsedAsInput_implicit")
      /\ Has(log[e[1]], "AfterUsedAsOutput")

C9_Witness == \E e \in edges : Has(log[e[2]], "BeforeUsingAsInput")

\* C10: the observations and the kernel call made for a node are an initial part of:
\* BeforeUsingAsInput (inputs, implicit inputs), BeforeUsingAsOutput, Compute,
\* AfterUsedAsInput (inputs, implicit inputs), AfterUsedAsOutput.
C10_IntraNodeOrder == \A n \in Nodes : IsPrefix(log[n], NodeEvents)

C10_Witness == \E n \in Nodes : log[n] = NodeEvents /\ Predecessors(n) # {}

\* ------------------------------------------------------------ claim C32
\* The worker tasks that were enqueued and have not yet called FinishNodeRun: the
\* ones the pool still holds and the ones a worker is running.
Running == {w \in Workers : worker[w].pc # "idle"}
InFlight == Len(queue) + Cardinality(Running)

\* C32: in every reachable state of a parallel run out_standings_ equals the number
\* of worker tasks that have been enqueued and have not yet called FinishNodeRun and
\* is never negative; it is incremented exactly once per EnqueueNode, not changed
\* when a worker adopts a successor, decremented exactly once per task on the normal
\* path and on the exception path, and not changed by any other step.
C32_OutStandingsCountsTasks ==
  /\ [](out_standings_ = InFlight /\ out_standings_ >= 0)
  /\ [][/\ Len(queue') = Len(queue) + 1 => out_standings_' = out_standings_ + 1
        /\ \A w \in Workers :
             /\ (worker[w].pc = "edges" /\ worker'[w].node_index # worker[w].node_index)
                  => out_standings_' = out_standings_
             /\ (worker[w].pc \in {"finish", "catch"} /\ worker'[w].pc = "idle")
                  => out_standings_' = out_standings_ - 1
        /\ out_standings_' # out_standings_ =>
             \/ Len(queue') = Len(queue) + 1
             \/ \E w \in Workers : worker[w].pc \in {"finish", "catch"} /\ worker'[w].pc = "idle"
       ]_vars

\* A worker has adopted a successor of the node it ran while another task is on the
\* exception path, both still counted.
C32_Witness ==
  /\ out_standings_ = 2
  /\ \E w \in Workers : worker[w].pc = "catch"
  /\ \E w \in Workers : /\ worker[w].pc = "check" /\ worker[w].kernel # 0
                         /\ worker[w].node_index # worker[w].kernel

\* ====================================================================
\* InferenceSession::Impl (core/session/inference_session.cc)
\* ====================================================================
kCpuExecutionProvider == "CPUExecutionProvider"
kCudaExecutionProvider == "CUDAExecutionProvider"
ProviderTypes == {kCpuExecutionProvider, kCudaExecutionProvider}

\* An MLValue: unallocated, a tensor (element type, location, contents, the
\* buffer that holds it) or a value of another type.
Unallocated ==
  [allocated |-> FALSE, is_tensor |-> FALSE, type |-> "none", provider |-> "none",
   mem_type |-> "none", data |-> 0, buffer |-> "none"]
TensorValue(ty, prov, mem, d, buf) ==
  [allocated |-> TRUE, is_tensor |-> TRUE, type |-> ty, provider |-> prov,
   mem_type |-> mem, data |-> d, buffer |-> buf]
MapValue ==
  [allocated |-> TRUE, is_tensor |-> FALSE, type |-> "map", provider |-> "none",
   mem_type |-> "none", data |-> 1, buffer |-> "caller"]
FloatTensor == TensorValue("float", kCpuExecutionProvider, "Default", 1, "caller")
Int64Tensor == TensorValue("int64", kCpuExecutionProvider, "Default", 1, "caller")

\* What SaveModelMetadata stores for the graph of a loaded model: input A is
\* required, input B has an initializer, the outputs are Y and Z; all are float
\* tensors.
required_model_input_names_ == {"A"}
model_input_names_ == {"A", "B"}
model_output_names_ == {"Y", "Z"}
input_def_list_ == [n \in model_input_names_ |-> [is_tensor |-> TRUE, type |-> "float"]]

\* The feeds and the output requests that Run is called with.
FeedChoices ==
  { "A" :> FloatTensor,
    ("A" :> FloatTensor) @@ ("B" :> FloatTensor),
    "B" :> FloatTensor,
    ("A" :> FloatTensor) @@ ("Q" :> FloatTensor),
    "A" :> Int64Tensor,
    "A" :> MapValue }
Fetches(null, v) == [null |-> null, v |-> v]
OutputChoices ==
  { [output_names |-> <<"Y">>, p_fetches |-> Fetches(FALSE, <<>>)],
    [output_names |-> <<"Z", "Y">>, p_fetches |-> Fetches(FALSE, <<Unallocated, Unallocated>>)],
    [output_names |-> <<"Y">>, p_fetches |-> Fetches(TRUE, <<>>)],
    [output_names |-> <<>>, p_fetches |-> Fetches(FALSE, <<>>)],
    [output_names |-> <<"Y", "Z">>, p_fetches |-> Fetches(FALSE, <<Unallocated>>)],
    [output_names |-> <<"W">>, p_fetches |-> Fetches(FALSE, <<>>)],
    [output_names |-> <<"Y", "Y">>, p_fetches |-> Fetches(FALSE, <<>>)] }
ValidFeeds == "A" :> FloatTensor
ValidOutputs == [output_names |-> <<"Y">>, p_fetches |-> Fetches(FALSE, <<>>)]
RunArg(f, o) == [feeds |-> f, output_names |-> o.output_names, p_fetches |-> o.p_fetches]
RunArgs ==
  {RunArg(ValidFeeds, o) : o \in OutputChoices}
    \cup {RunArg(f, ValidOutputs) : f \in FeedChoices}
    \cup {RunArg("B" :> FloatTensor, [output_names |-> <<"W">>, p_fetches |-> Fetches(TRUE, <<>>)])}

\* ONNXRUNTIME_CHECK_AND_SET_RETVAL(fn): fn is evaluated only while retval is OK.
CheckAndSetRetval_Overwrite(retval, fn) == fn
CheckAndSetRetval(retval, fn) == IF retval = "OK" THEN fn ELSE retval

\* Impl::CheckTypes
CheckTypes(actual, expected) == IF actual = expected THEN "OK" ELSE "INVALID_ARGUMENT"

\* Impl::ValidateInputTypes: a fed value that is not a tensor is compared by its
\* type, a tensor by its element type.
ValidateInputTypes(feeds) ==
  IF \E n \in model_input_names_ \cap DOMAIN feeds :
       IF ~feeds[n].is_tensor
         THEN CheckTypes([is_tensor |-> FALSE, type |-> feeds[n].type], input_def_list_[n]) # "OK"
         ELSE CheckTypes(feeds[n].type, input_def_list_[n].type) # "OK"
    THEN "INVALID_ARGUMENT"
    ELSE "OK"

\* Impl::ValidateInputNames
ValidateInputNames(feeds) ==
  IF \E r \in required_model_input_names_ : r \notin DOMAIN feeds
    THEN "INVALID_ARGUMENT"
    ELSE IF \E n \in DOMAIN feeds : n \notin model_input_names_
           THEN "INVALID_ARGUMENT"
           ELSE "OK"

\* Impl::ValidateInputs
ValidateInputs(feeds) ==
  IF ValidateInputNames(feeds) # "OK" THEN ValidateInputNames(feeds)
                                      ELSE ValidateInputTypes(feeds)

\* Impl::ValidateOutputs
ValidateOutputs_NoNameCheck(output_names, p_fetches) ==
  IF p_fetches.null THEN "INVALID_ARGUMENT"
  ELSE IF output_names = <<>> THEN "INVALID_ARGUMENT"
  ELSE IF p_fetches.v # <<>> /\ Len(output_names) # Len(p_fetches.v) THEN "INVALID_ARGUMENT"
  ELSE "OK"
ValidateOutputs(output_names, p_fetches) ==
  IF p_fetches.null THEN "INVALID_ARGUMENT"
  ELSE IF output_names = <<>> THEN "INVALID_ARGUMENT"
  ELSE IF p_fetches.v # <<>> /\ Len(output_names) # Len(p_fetches.v) THEN "INVALID_ARGUMENT"
  ELSE IF \E i \in 1..Len(output_names) : output_names[i] \notin model_output_names_
         THEN "INVALID_ARGUMENT"
  ELSE "OK"

\* Impl::MatchOutputsWithProviders: an empty fetches vector is resized to
\* output_names; every graph output is the output of a node, so seen_outputs ends
\* as the set of requested names that the graph produces.
ResizedFetches(output_names, v) ==
  IF v = <<>> THEN [i \in 1..Len(output_names) |-> Unallocated] ELSE v
MatchOutputsWithProviders(output_names) ==
  LET seen_outputs == {output_names[i] : i \in 1..Len(output_names)} \cap model_output_names_
  IN  IF Cardinality(seen_outputs) = Len(output_names) THEN "OK" ELSE "FAIL"

\* ExecutionProviders::Get(location / type): the types that are registered.
RegisteredTypes(eps) == {eps[i].type : i \in 1..Len(eps)}

\* execution_providers_.Get(location), falling back to the CPU provider.
ProviderTypeOf(eps, location) ==
  IF location \in RegisteredTypes(eps) THEN location ELSE kCpuExecutionProvider

\* Impl::AllocateHelper: a tensor of the fetched tensor's type and shape in a new
\* buffer of the provider's default allocator; its contents are not yet written.
AllocateHelper(eps, provider_type, fetched_tensor) ==
  IF provider_type \notin RegisteredTypes(eps)
    THEN [status |-> "INVALID_ARGUMENT", value |-> Unallocated]
    ELSE [status |-> "OK",
          value |-> TensorValue(fetched_tensor.type, provider_type, "Default", 0, "new")]

\* IExecutionProvider::CopyTensor(src, dst): dst's buffer receives src's contents.
CopyTensor(src, dst) == [dst EXCEPT !.data = src.data]

\* One iteration of the loop of Impl::CopyOutputsAcrossDevices.
SameLocation_IgnoreMemType(output_provider_type, fetched_provider_type, mem_type) ==
  output_provider_type = fetched_provider_type
SameLocation(output_provider_type, fetched_provider_type, mem_type) ==
  output_provider_type = fetched_provider_type \/ mem_type = "CPUOutput"

CopyOutput(eps, fetched_mlvalue, output_mlvalue) ==
  IF ~fetched_mlvalue.is_tensor
    THEN [status |-> "OK", value |-> fetched_mlvalue]
    ELSE
      LET fetched_provider_type == ProviderTypeOf(eps, fetched_mlvalue.provider)
          alloc == IF ~output_mlvalue.allocated
                     THEN AllocateHelper(eps, kCpuExecutionProvider, fetched_mlvalue)
                     ELSE [status |-> "OK", value |-> output_mlvalue]
      IN  IF ~output_mlvalue.allocated /\ fetched_provider_type = kCpuExecutionProvider
            THEN [status |-> "OK", value |-> fetched_mlvalue]
            ELSE IF alloc.status # "OK"
              THEN [status |-> alloc.status, value |-> output_mlvalue]
              ELSE
                LET output_provider_type == ProviderTypeOf(eps, alloc.value.provider)
                IN  IF SameLocation(output_provider_type, fetched_provider_type,
                                    fetched_mlvalue.mem_type)
                      THEN [status |-> "OK", value |-> fetched_mlvalue]
                      ELSE [status |-> "OK", value |-> CopyTensor(fetched_mlvalue, alloc.value)]

\* Impl::CopyOutputsAcrossDevices: the loop stops at the first error.
FirstError(eps, fetches_, user_fetches) ==
  LET bad == {i \in 1..Len(fetches_) : CopyOutput(eps, fetches_[i], user_fetches[i]).status # "OK"}
  IN  IF bad = {} THEN 0 ELSE Min(bad)
CopyOutputsAcrossDevices(eps, fetches_, user_fetches) ==
  LET err == FirstError(eps, fetches_, user_fetches)
  IN  [status |-> IF err = 0 THEN "OK"
                  ELSE CopyOutput(eps, fetches_[err], user_fetches[err]).status,
       user_fetches |-> [i \in 1..Len(user_fetches) |->
                           IF i <= Len(fetches_) /\ (err = 0 \/ i < err)
                             THEN CopyOutput(eps, fetches_[i], user_fetches[i]).value
                             ELSE user_fetches[i]]]

\* ------------------------------------------------------------ the calls
\* The value that a run of the graph produces for an output (on the CPU provider,
\* on which the nodes of the session's graph are placed).
OutputData(name) == IF name = "Y" THEN 11 ELSE 12
ProducedValue(name) ==
  TensorValue("float", kCpuExecutionProvider, "Default", OutputData(name), "frame")

Snapshot ==
  [loaded |-> is_model_loaded_, inited |-> is_inited_, model |-> model_, failed_runs |-> 0]

CanCall(t) == call[t].pc = "idle" /\ ncalls < MaxCalls

InCall(u, op) == call[u].op = op /\ call[u].pc # "idle"

\* The call c of thread t returns: it becomes the last returned call.
Returns(t, c) ==
  /\ returned' = [c EXCEPT !.pc = "returned", !.by = t]
  /\ call' = [call EXCEPT ![t] = NoCall]

Return(t, retval, outcome) == [call[t] EXCEPT !.retval = retval, !.outcome = outcome]

\* The status a caught exception is turned into.
CatchStatus_AllFail(op, exception) == "FAIL"
CatchStatus(op, exception) ==
  IF exception = "NotImplementedException" /\ op = "Initialize" THEN "NOT_IMPLEMENTED"
  ELSE IF exception = "unknown_exception" THEN "RUNTIME_EXCEPTION"
  ELSE "FAIL"

Exceptions == {"NotImplementedException", "std_exception", "unknown_exception"}

\* Impl::RegisterExecutionProvider
ProvidersAdd(eps, p) == IF p.type \in RegisteredTypes(eps) THEN eps ELSE Append(eps, p)

RegisterExecutionProvider(t) ==
  /\ CanCall(t)
  /\ \E p \in {"null"} \cup ProviderTypes :
       /\ Returns(t, [NoCall EXCEPT !.op = "RegisterExecutionProvider", 
                                    !.arg = p, !.pre = Snapshot,
                                    !.retval = IF p = "null" THEN "FAIL" ELSE "OK"])
       /\ execution_providers_' =
            IF p = "null" THEN execution_providers_
            ELSE ProvidersAdd(execution_providers_, [type |-> p, owner |-> "user"])
  /\ ncalls' = ncalls + 1
  /\ UNCHANGED <<nonSessionVars, session_mutex_, is_model_loaded_, is_inited_, model_,
                 transformers_, custom_schema_registries_, kernel_registries_, plan_,
                 current_num_runs_, pipeline>>

\* Impl::RegisterGraphTransformer
RegisterGraphTransformer(t) ==
  /\ CanCall(t)
  /\ Len(transformers_) < MaxRegistered
  /\ \E p \in {"null", "transformer"} :
       /\ Returns(t, [NoCall EXCEPT !.op = "RegisterGraphTransformer", 
                                    !.arg = p, !.pre = Snapshot,
                                    !.retval = IF p = "null" THEN "FAIL" ELSE "OK"])
       /\ transformers_' = IF p = "null" THEN transformers_ ELSE Append(transformers_, p)
  /\ ncalls' = ncalls + 1
  /\ UNCHANGED <<nonSessionVars, session_mutex_, is_model_loaded_, is_inited_, model_,
                 execution_providers_, custom_schema_registries_, kernel_registries_, plan_,
                 current_num_runs_, pipeline>>

\* Impl::RegisterCustomRegistry
RegisterCustomRegistry(t) ==
  /\ CanCall(t)
  /\ custom_schema_registries_ < MaxRegistered
  /\ \E p \in {"null", "registry"} :
       /\ Returns(t, [NoCall EXCEPT !.op = "RegisterCustomRegistry", 
                                    !.arg = p, !.pre = Snapshot,
                                    !.retval = IF p = "null" THEN "FAIL" ELSE "OK"])
       /\ IF p = "null"
            THEN UNCHANGED <<kernel_registries_, custom_schema_registries_>>
            ELSE /\ kernel_registries_' =
                      [kernel_registries_ EXCEPT !.custom = kernel_registries_.custom + 1]
                 /\ custom_schema_registries_' = custom_schema_registries_ + 1
  /\ ncalls' = ncalls + 1
  /\ UNCHANGED <<nonSessionVars, session_mutex_, is_model_loaded_, is_inited_, model_,
                 execution_providers_, transformers_, plan_, current_num_runs_, pipeline>>

\* A thread calls Load: model 1 by its uri, model 2 from a stream.  It now waits
\* for session_mutex_.
LoadArgs == {[model |-> 1, overload |-> "uri"], [model |-> 2, overload |-> "istream"]}

LoadCall(t) ==
  /\ CanCall(t)
  /\ \E a \in LoadArgs :
       call' = [call EXCEPT ![t] =
                  [NoCall EXCEPT !.op = "Load", !.pc = "enter", !.arg = a,
                                 !.raced = \E u \in Threads \ {t} : InCall(u, "Load")]] /\ UNCHANGED returned
  /\ ncalls' = ncalls + 1
  /\ UNCHANGED <<nonSessionVars, session_mutex_, is_model_loaded_, is_inited_, model_,
                 sessionStateVars, current_num_runs_, pipeline>>

\* Load, from the lock_guard to `model_ = p_tmp_model`.
AlreadyLoaded_Never(loaded) == FALSE
AlreadyLoaded(loaded) == loaded

LoadOutcomes(overload) ==
  {"ok", "load_error", "std_exception", "unknown_exception"}
    \cup (IF overload = "istream" THEN {"parse_error"} ELSE {})

LoadBegin(t) ==
  /\ call[t].op = "Load" /\ call[t].pc = "enter"
  /\ session_mutex_ = 0
  /\ IF AlreadyLoaded(is_model_loaded_)
       THEN /\ Returns(t, [Return(t, "MODEL_LOADED", "already_loaded") EXCEPT !.pre = Snapshot])
            /\ UNCHANGED <<session_mutex_, model_>>
       ELSE \E outcome \in LoadOutcomes(call[t].arg.overload) :
              IF outcome = "ok"
                THEN /\ model_' = call[t].arg.model
                     /\ session_mutex_' = t
                     /\ call' = [call EXCEPT ![t] =
                                   [call[t] EXCEPT !.pc = "load_post", !.pre = Snapshot]] /\ UNCHANGED returned
                ELSE /\ Returns(t, [Return(t, IF outcome = "parse_error" THEN "INVALID_PROTOBUF"
                                              ELSE IF outcome = "load_error" THEN "INVALID_GRAPH"
                                              ELSE CatchStatus("Load", outcome), outcome)
                                      EXCEPT !.pre = Snapshot])
                     /\ UNCHANGED <<session_mutex_, model_>>
  /\ UNCHANGED <<nonSessionVars, is_model_loaded_, is_inited_, sessionStateVars,
                 current_num_runs_, ncalls, pipeline>>

\* Load, from DoPostLoadProcessing to the return.
LoadFinish_MarksLoadedAnyway(t) ==
  /\ call[t].op = "Load" /\ call[t].pc = "load_post"
  /\ \E outcome \in {"ok", "std_exception", "unknown_exception"} :
       /\ is_model_loaded_' = TRUE
       /\ Returns(t, Return(t, IF outcome = "ok" THEN "OK" ELSE CatchStatus("Load", outcome),
                            outcome))
  /\ session_mutex_' = 0
  /\ UNCHANGED <<nonSessionVars, is_inited_, model_, sessionStateVars,
                 current_num_runs_, ncalls, pipeline>>
LoadFinish(t) ==
  /\ call[t].op = "Load" /\ call[t].pc = "load_post"
  /\ \E outcome \in {"ok", "std_exception", "unknown_exception"} :
       /\ is_model_loaded_' = (outcome = "ok")
       /\ Returns(t, Return(t, IF outcome = "ok" THEN "OK" ELSE CatchStatus("Load", outcome),
                            outcome))
  /\ session_mutex_' = 0
  /\ UNCHANGED <<nonSessionVars, is_inited_, model_, sessionStateVars,
                 current_num_runs_, ncalls, pipeline>>

\* Initialize, from the lock_guard to AddKernelRegistries.
AlreadyInitialized_Never(inited) == FALSE
AlreadyInitialized(inited) == inited

InitializeBegin(t) ==
  /\ CanCall(t)
  /\ session_mutex_ = 0
  /\ ncalls' = ncalls + 1
  /\ IF ~is_model_loaded_
       THEN /\ Returns(t, [NoCall EXCEPT !.op = "Initialize", !.retval = "FAIL",
                                              !.outcome = "not_loaded", !.pre = Snapshot])
            /\ UNCHANGED <<session_mutex_, execution_providers_, kernel_registries_>>
       ELSE IF AlreadyInitialized(is_inited_)
         THEN /\ Returns(t, [NoCall EXCEPT !.op = "Initialize", !.retval = "OK",
                                                !.outcome = "already_initialized",
                                                !.pre = Snapshot])
              /\ UNCHANGED <<session_mutex_, execution_providers_, kernel_registries_>>
         ELSE /\ execution_providers_' =
                   ProvidersAdd(execution_providers_,
                                [type |-> kCpuExecutionProvider, owner |-> "default"])
              /\ kernel_registries_' =
                   [kernel_registries_ EXCEPT
                      !.providers = @ \cup RegisteredTypes(execution_providers_')]
              /\ session_mutex_' = t
              /\ call' = [call EXCEPT ![t] =
                            [NoCall EXCEPT !.op = "Initialize", !.pc = "init_plan",
                                           !.pre = Snapshot]]
              /\ UNCHANGED returned
  /\ UNCHANGED <<nonSessionVars, is_model_loaded_, is_inited_, model_, transformers_,
                 custom_schema_registries_, plan_, current_num_runs_, pipeline>>

\* Initialize, from CreatePlan to the return.
InitializeFinish(t) ==
  /\ call[t].op = "Initialize" /\ call[t].pc = "init_plan"
  /\ \E outcome \in {"ok", "error"} \cup Exceptions :
       /\ is_inited_' = (outcome = "ok")
       /\ plan_' = (plan_ \/ outcome = "ok")
       /\ pipeline' = [pipeline EXCEPT !.entered = @ + 1,
                                       !.completed = IF outcome = "ok" THEN @ + 1 ELSE @]
       /\ Returns(t, Return(t, IF outcome = "ok" THEN "OK"
                               ELSE IF outcome = "error" THEN "FAIL"
                               ELSE CatchStatus("Initialize", outcome), outcome))
  /\ session_mutex_' = 0
  /\ UNCHANGED <<nonSessionVars, is_model_loaded_, model_, execution_providers_, transformers_,
                 custom_schema_registries_, kernel_registries_, current_num_runs_, ncalls>>

\* Impl::NewIOBinding
NewIOBinding(t) ==
  /\ CanCall(t)
  /\ session_mutex_ = 0
  /\ Returns(t, [NoCall EXCEPT !.op = "NewIOBinding", !.pre = Snapshot,
                               !.retval = IF is_inited_ THEN "OK" ELSE "FAIL"])
  /\ ncalls' = ncalls + 1
  /\ UNCHANGED <<nonSessionVars, session_mutex_, is_model_loaded_, is_inited_, model_,
                 sessionStateVars, current_num_runs_, pipeline>>

\* Run, from its start to the creation of the executor.
RunBegin(t) ==
  /\ CanCall(t)
  /\ session_mutex_ = 0
  /\ \E a \in RunArgs :
       LET r0 == IF is_inited_ THEN "OK" ELSE "FAIL"
           r1 == CheckAndSetRetval(r0, ValidateInputs(a.feeds))
           r2 == CheckAndSetRetval(r1, ValidateOutputs(a.output_names, a.p_fetches))
           on_run_start == IF r2 = "OK" THEN Len(execution_providers_) ELSE 0
           r3 == CheckAndSetRetval(r2, MatchOutputsWithProviders(a.output_names))
       IN  call' = [call EXCEPT ![t] =
                      [NoCall EXCEPT
                         !.op = "Run", !.pc = "run_exec", !.arg = a,
                         !.pre = [Snapshot EXCEPT !.failed_runs = pipeline.failed_runs],
                         !.retval = r3,
                         !.ran = [NotRun EXCEPT
                                    !.on_run_start = on_run_start,
                                    !.executor = (r3 = "OK"),
                                    !.fetches = IF r2 = "OK"
                                                  THEN ResizedFetches(a.output_names, a.p_fetches.v)
                                                  ELSE a.p_fetches.v]]] /\ UNCHANGED returned
  /\ current_num_runs_' = current_num_runs_ + 1
  /\ ncalls' = ncalls + 1
  /\ UNCHANGED <<nonSessionVars, session_mutex_, is_model_loaded_, is_inited_, model_,
                 sessionStateVars, pipeline>>

\* Run, from Execute to the return.
RunFinish(t) ==
  /\ call[t].op = "Run" /\ call[t].pc = "run_exec"
  /\ \E outcome \in IF call[t].retval = "OK" THEN {"ok", "error"} \cup Exceptions
                                              ELSE {"skipped"} :
       LET a == call[t].arg
           new_fetches == [i \in 1..Len(a.output_names) |-> ProducedValue(a.output_names[i])]
           copied == CopyOutputsAcrossDevices(execution_providers_, new_fetches,
                                              call[t].ran.fetches)
           retval == IF outcome = "skipped" THEN call[t].retval
                     ELSE IF outcome = "ok" THEN copied.status
                     ELSE IF outcome = "error" THEN "FAIL"
                     ELSE CatchStatus("Run", outcome)
       IN  /\ Returns(t, [Return(t, retval, outcome) EXCEPT
                            !.ran = [call[t].ran EXCEPT
                                       !.kernels = (outcome # "skipped"),
                                       !.fetches = IF outcome = "ok" THEN copied.user_fetches
                                                                     ELSE @,
                                       !.on_run_end = IF retval = "OK"
                                                        THEN Len(execution_providers_) ELSE 0]])
           /\ pipeline' = [pipeline EXCEPT
                             !.failed_runs = IF outcome \in Exceptions THEN @ + 1 ELSE @]
  /\ current_num_runs_' = current_num_runs_ - 1
  /\ UNCHANGED <<nonSessionVars, session_mutex_, is_model_loaded_, is_inited_, model_,
                 sessionStateVars, ncalls>>

SessionCall(t) ==
  \/ RegisterExecutionProvider(t)
  \/ RegisterGraphTransformer(t)
  \/ RegisterCustomRegistry(t)
  \/ LoadCall(t)
  \/ LoadBegin(t)
  \/ LoadFinish(t)
  \/ InitializeBegin(t)
  \/ InitializeFinish(t)
  \/ NewIOBinding(t)
  \/ RunBegin(t)
  \/ RunFinish(t)

SessionInit == SessionIdle /\ NonSessionIdle

SessionNext == \E t \in Threads : SessionCall(t)

SessionSpec == SessionInit /\ [][SessionNext]_vars

\* ------------------------------------------------------ claims on the session
Runs == {c \in {call[t] : t \in Threads} \cup {returned} : c.op = "Run"}

TypeOf(v) == [is_tensor |-> v.is_tensor, type |-> v.type]
MissingRequiredInput(feeds) == \E r \in required_model_input_names_ : r \notin DOMAIN feeds
UnknownFeedName(feeds) == \E n \in DOMAIN feeds : n \notin model_input_names_
FeedTypeDiffers(feeds) ==
  \E n \in DOMAIN feeds \cap model_input_names_ : TypeOf(feeds[n]) # input_def_list_[n]
InvalidFeeds(feeds) ==
  MissingRequiredInput(feeds) \/ UnknownFeedName(feeds) \/ FeedTypeDiffers(feeds)

InvalidOutputRequest(a) ==
  \/ a.p_fetches.null
  \/ a.output_names = <<>>
  \/ a.p_fetches.v # <<>> /\ Len(a.p_fetches.v) # Len(a.output_names)
  \/ \E i \in 1..Len(a.output_names) : a.output_names[i] \notin model_output_names_

NothingExecuted(c) == c.ran.on_run_start = 0 /\ ~c.ran.executor /\ ~c.ran.kernels

\* The step is the return of a call of op: either a call made in one step, or a
\* call in flight that ends.
ReturnsNow(op) ==
  /\ returned'.op = op
  /\ \/ ncalls' = ncalls + 1 /\ call' = call
     \/ \E t \in Threads : call[t].pc # "idle" /\ call'[t].pc = "idle"

sessionFlags == <<is_model_loaded_, is_inited_>>

C12_Original ==
  \A c \in Runs :
    /\ (c.pre.loaded /\ InvalidOutputRequest(c.arg)) =>
         /\ NothingExecuted(c)
         /\ c.pc = "returned" => c.retval = "INVALID_ARGUMENT"
    /\ (c.pc = "returned" /\ c.retval = "OK") =>
         /\ Len(c.ran.fetches) = Len(c.arg.output_names)
         /\ \A i \in 1..Len(c.arg.output_names) :
              c.ran.fetches[i].data = OutputData(c.arg.output_names[i])

\* C12 (amended): the same, with InvalidArgument returned on an initialized
\* session and FAIL on a session that is not initialized.
C12_ValidatesOutputs ==
  \A c \in Runs :
    /\ InvalidOutputRequest(c.arg) =>
         /\ NothingExecuted(c)
         /\ c.pc = "returned" =>
              c.retval = IF c.pre.inited THEN "INVALID_ARGUMENT" ELSE "FAIL"
    /\ (c.pc = "returned" /\ c.retval = "OK") =>
         /\ Len(c.ran.fetches) = Len(c.arg.output_names)
         /\ \A i \in 1..Len(c.arg.output_names) :
              c.ran.fetches[i].data = OutputData(c.arg.output_names[i])

\* A Run on an initialized session with valid feeds and a name that is not a model
\* output returned InvalidArgument.
C12_Witness ==
  /\ returned.op = "Run" /\ returned.pre.inited
  /\ ~InvalidFeeds(returned.arg.feeds)
  /\ returned.arg.output_names = <<"W">>
  /\ returned.retval = "INVALID_ARGUMENT"

\* C13: once is_model_loaded_ is set, no step changes model_ or clears the flag,
\* and every Load that returns from then on returns MODEL_LOADED and leaves
\* is_inited_ as it was, whichever thread makes it.
C13_SecondLoadRejected ==
  [][is_model_loaded_ =>
       /\ model_' = model_
       /\ is_model_loaded_'
       /\ ReturnsNow("Load") => returned'.retval = "MODEL_LOADED" /\ is_inited_' = is_inited_
    ]_vars

\* A Load that was called while another Load was in progress, for another model
\* than the one that got loaded, returned MODEL_LOADED.
C13_Witness ==
  /\ returned.op = "Load" /\ returned.raced
  /\ returned.retval = "MODEL_LOADED"
  /\ returned.arg.model # model_

HasProvider(eps, ty, owner) == \E i \in 1..Len(eps) : eps[i] = [type |-> ty, owner |-> owner]

InitializeContract ==
  /\ (ReturnsNow("Initialize") /\ ~is_model_loaded_) =>
       /\ returned'.retval = "FAIL"
       /\ UNCHANGED <<sessionFlags, model_, sessionStateVars, pipeline>>
  /\ (ReturnsNow("Initialize") /\ is_inited_) =>
       /\ returned'.retval = "OK"
       /\ UNCHANGED <<sessionFlags, model_, sessionStateVars, pipeline>>
  /\ ((ReturnsNow("Run") \/ ReturnsNow("NewIOBinding")) /\ ~returned'.pre.inited) =>
       /\ returned'.retval = "FAIL"
       /\ ~returned'.ran.kernels
  /\ is_inited_' =>
       Cardinality({i \in 1..Len(execution_providers_') :
                      execution_providers_'[i].type = kCpuExecutionProvider}) = 1
  /\ HasProvider(execution_providers_, kCpuExecutionProvider, "user") =>
       ~HasProvider(execution_providers_', kCpuExecutionProvider, "default")

\* C14 as stated: the pipeline (CreatePlan: rewriter and planner) is entered at
\* most once per session; Initialize before a successful Load returns FAIL and
\* changes nothing; Initialize after a successful Initialize returns OK and does
\* not enter the pipeline; Run and NewIOBinding before a successful Initialize
\* return FAIL and run no kernel; an initialized session has exactly one CPU
\* provider, the user's if one was registered.
C14_Original == [][InitializeContract /\ pipeline'.entered <= 1]_vars

\* C14 (amended): the same, except that the pipeline completes at most once; a
\* failed Initialize can be called again and enters the pipeline again.
C14_InitializesOnce == [][InitializeContract /\ pipeline'.completed <= 1]_vars

\* Initialize was called on an initialized session whose CPU provider is the
\* user's, and returned OK.
C14_Witness ==
  /\ returned.op = "Initialize" /\ returned.outcome = "already_initialized"
  /\ returned.retval = "OK"
  /\ HasProvider(execution_providers_, kCpuExecutionProvider, "user")
  /\ pipeline.entered = 1

Caught == {c \in {returned} : c.op \in {"Load", "Initialize", "Run"} /\ c.outcome \in Exceptions}

ExceptionContract ==
  /\ \A t \in Threads : call'[t].pc = "idle" => session_mutex_' # t
  /\ ReturnsNow("Run") => UNCHANGED <<sessionFlags, model_>>

C17_StateImmutableAfterInitialize == [][is_inited_ => UNCHANGED sessionStateVars]_vars

\* ------------------------------------------------------------ claim C33
\* C33: at the end of every Run, whether it succeeded or failed, every provider
\* whose OnRunStart was called during the Run has OnRunEnd called before the Run
\* returns.
C33_ProvidersInformedOfRunEnd ==
  returned.op = "Run" => returned.ran.on_run_end >= returned.ran.on_run_start

\* ------------------------------------------------------------ claim C34
\* The session as Impl::Impl leaves it.  current_num_runs_ is a std::atomic<int>
\* without an initializer, in the class and in the constructor: its first value is
\* whatever the memory of the new Impl held.
UncountedInit ==
  /\ session_mutex_ = 0
  /\ is_model_loaded_ = FALSE
  /\ is_inited_ = FALSE
  /\ model_ = 0
  /\ execution_providers_ = <<>>
  /\ transformers_ = <<>>
  /\ custom_schema_registries_ = 0
  /\ kernel_registries_ = [custom |-> 0, providers |-> {}]
  /\ plan_ = FALSE
  /\ current_num_runs_ \in {-1, 0}
  /\ call = [t \in Threads |-> NoCall]
  /\ returned = NoCall
  /\ ncalls = 0
  /\ pipeline = [entered |-> 0, completed |-> 0, failed_runs |-> 0]
  /\ NonSessionIdle

UncountedSpec == UncountedInit /\ [][SessionNext]_vars

\* The Run calls between their increment and their decrement of current_num_runs_.
RunsInFlight == {t \in Threads : call[t].op = "Run" /\ call[t].pc = "run_exec"}

\* C34: for every interleaving of concurrent Run calls, GetCurrentNumRuns equals
\* the number of Run calls currently between their increment and decrement and is
\* never negative, and every Run that returns, with success, with a failed
\* validation or with a caught exception, takes back its own increment.
C34_NumRunsCountsRunsInFlight ==
  /\ [](current_num_runs_ = Cardinality(RunsInFlight) /\ current_num_runs_ >= 0)
  /\ [][\A t \in Threads :
          /\ (t \notin RunsInFlight /\ t \in RunsInFlight')
               => current_num_runs_' = current_num_runs_ + 1
          /\ (t \in RunsInFlight /\ t \notin RunsInFlight')
               => current_num_runs_' = current_num_runs_ - 1]_vars

\* ------------------------------------------------------------ claim C35
\* The step is the end of a call of op that was in flight at the given position.
EndsAt(op, pc) ==
  \E t \in Threads : call[t].op = op /\ call[t].pc = pc /\ call'[t].pc = "idle"

\* C35: in every reachable session state is_inited_ implies is_model_loaded_; both
\* flags only ever change from false to true; is_model_loaded_ becomes true only at
\* the end of a Load in which Model::Load and DoPostLoadProcessing succeeded, and
\* is_inited_ only at the end of an Initialize in which CreatePlan,
\* InitializeAndSave and InitializeSubgraphSessions succeeded; a Load or an
\* Initialize that fails leaves its flag false.
C35_FlagsOnlyRise ==
  /\ [](is_inited_ => is_model_loaded_)
  /\ [][/\ is_model_loaded_ => is_model_loaded_'
        /\ is_inited_ => is_inited_'
        /\ (~is_model_loaded_ /\ is_model_loaded_') =>
             /\ EndsAt("Load", "load_post")
             /\ returned'.op = "Load" /\ returned'.outcome = "ok" /\ returned'.retval = "OK"
        /\ (~is_inited_ /\ is_inited_') =>
             /\ EndsAt("Initialize", "init_plan")
             /\ returned'.op = "Initialize" /\ returned'.outcome = "ok"
             /\ returned'.retval = "OK"
        /\ (ReturnsNow("Load") /\ returned'.retval \notin {"OK", "MODEL_LOADED"})
             => ~is_model_loaded_'
        /\ (ReturnsNow("Initialize") /\ returned'.retval # "OK") => ~is_inited_'
       ]_vars

\* An Initialize succeeded after an earlier Initialize of the same session had
\* failed.
C35_Witness ==
  /\ is_inited_ /\ is_model_loaded_
  /\ returned.op = "Initialize" /\ returned.outcome = "ok"
  /\ pipeline.entered > pipeline.completed

\* ------------------------------- CopyOutputsAcrossDevices, step by step
\* The providers of an initialized session: the CPU provider is always one of them.
ProviderLists ==
  { <<[type |-> kCpuExecutionProvider, owner |-> "user"]>>,
    <<[type |-> kCpuExecutionProvider, owner |-> "user"],
      [type |-> kCudaExecutionProvider, owner |-> "user"]>>,
    <<[type |-> kCudaExecutionProvider, owner |-> "user"],
      [type |-> kCpuExecutionProvider, owner |-> "default"]>> }

\* What the executor can have fetched for output i: a tensor in memory of a
\* registered provider (for another provider than CPU, in its default memory or in
\* CPU-accessible output memory), or a value that is not a tensor.
FetchedChoices(eps, i) ==
  {TensorValue("float", kCpuExecutionProvider, "Default", 10 + i, "frame"),
   [MapValue EXCEPT !.data = 10 + i, !.buffer = "frame"]}
  \cup (IF kCudaExecutionProvider \in RegisteredTypes(eps)
          THEN {TensorValue("float", kCudaExecutionProvider, mem, 10 + i, "frame") :
                  mem \in {"Default", "CPUOutput"}}
          ELSE {})

\* What the caller can have put in user_fetches[i]: nothing, or a tensor of its own.
GivenChoices ==
  {Unallocated} \cup {TensorValue("float", p, "Default", 0, "caller") : p \in ProviderTypes}

CopyInit ==
  /\ cp_providers \in ProviderLists
  /\ \E n \in 1..MaxFetches :
       /\ cp_fetches \in {f \in [1..n -> UNION {FetchedChoices(cp_providers, i) : i \in 1..n}] :
                            \A i \in 1..n : f[i] \in FetchedChoices(cp_providers, i)}
       /\ cp_given \in [1..n -> GivenChoices]
  /\ cp_user_fetches = cp_given
  /\ cp_idx = 1
  /\ cp_status = "running"
  /\ ExecutorIdle /\ SessionIdle /\ RewriterIdle /\ FusionIdle /\ LaterIdle

\* The iteration ends in a call of CopyTensor.
CallsCopyTensor(eps, fetched_mlvalue, output_mlvalue) ==
  /\ fetched_mlvalue.is_tensor
  /\ CopyOutput(eps, fetched_mlvalue, output_mlvalue).status = "OK"
  /\ CopyOutput(eps, fetched_mlvalue, output_mlvalue).value.buffer # fetched_mlvalue.buffer

\* One iteration of the loop; CopyTensor can return an error, which ends the call.
CopyIteration ==
  /\ cp_status = "running"
  /\ cp_idx <= Len(cp_fetches)
  /\ LET r == CopyOutput(cp_providers, cp_fetches[cp_idx], cp_user_fetches[cp_idx])
     IN  \E copy_status \in {"OK", "FAIL"} :
           IF r.status # "OK"
             THEN /\ copy_status = "OK"
                  /\ cp_status' = r.status
                  /\ UNCHANGED <<cp_user_fetches, cp_idx>>
           ELSE IF CallsCopyTensor(cp_providers, cp_fetches[cp_idx], cp_user_fetches[cp_idx])
                   /\ copy_status # "OK"
             THEN /\ cp_status' = copy_status
                  /\ cp_user_fetches' = [cp_user_fetches EXCEPT ![cp_idx] = [r.value EXCEPT !.data = 0]]
                  /\ UNCHANGED cp_idx
           ELSE /\ copy_status = "OK"
                /\ cp_user_fetches' = [cp_user_fetches EXCEPT ![cp_idx] = r.value]
                /\ cp_idx' = cp_idx + 1
                /\ UNCHANGED cp_status
  /\ UNCHANGED <<nonCopyVars, cp_providers, cp_fetches, cp_given>>

\* The loop is over: return Status::OK().
CopyReturn ==
  /\ cp_status = "running"
  /\ cp_idx > Len(cp_fetches)
  /\ cp_status' = "OK"
  /\ UNCHANGED <<nonCopyVars, cp_providers, cp_fetches, cp_user_fetches, cp_given, cp_idx>>

CopyNext == CopyIteration \/ CopyReturn

CopySpec == CopyInit /\ [][CopyNext]_vars

\* ------------------------------------------------------------ claim C16
ResolvedProvider(v) == ProviderTypeOf(cp_providers, v.provider)

ReturnedOnCpu(i) ==
  /\ ResolvedProvider(cp_user_fetches[i]) = kCpuExecutionProvider
  /\ cp_user_fetches[i].data = cp_fetches[i].data
  /\ IF ResolvedProvider(cp_fetches[i]) = kCpuExecutionProvider
       THEN cp_user_fetches[i] = cp_fetches[i]
       ELSE cp_user_fetches[i].buffer = "new"

CopiedToCaller(i) ==
  /\ cp_user_fetches[i].buffer = "caller"
  /\ cp_user_fetches[i].provider = cp_given[i].provider
  /\ cp_user_fetches[i].data = cp_fetches[i].data

TensorOutputs == {i \in 1..Len(cp_fetches) : cp_fetches[i].is_tensor}

C18_PatternsAfterCompletion ==
  mem_patterns.cached =>
    /\ mainPc = "done"
    /\ hasKernel \subseteq Completed
    /\ mem_patterns.all_tensors

\* ------------------------------------ GraphTransformerManager::ApplyAll
\* The transformers that can be registered, by what Apply does to the graph:
\* "Add" adds the node when it is absent, "Remove" removes it when it is present,
\* "Toggle" does either (it never stops reporting a modification), "Idle" changes
\* nothing, "Fail" returns an error when the node is present.
TransformerKinds == {"Add", "Remove", "Toggle", "Idle", "Fail"}

\* GraphTransformer::Apply(graph, modified) of a transformer of this kind.
Apply(kind, graph) ==
  CASE kind = "Add" -> [graph |-> 1, modified |-> graph = 0, status |-> "OK"]
    [] kind = "Remove" -> [graph |-> 0, modified |-> graph = 1, status |-> "OK"]
    [] kind = "Toggle" -> [graph |-> 1 - graph, modified |-> TRUE, status |-> "OK"]
    [] kind = "Idle" -> [graph |-> graph, modified |-> FALSE, status |-> "OK"]
    [] kind = "Fail" -> [graph |-> graph, modified |-> FALSE,
                         status |-> IF graph = 1 THEN "FAIL" ELSE "OK"]

\* The manager as constructed and registered (any cap, any transformers), and
\* the graph ApplyAll is called on.
RewriterInit ==
  /\ rw_steps_ \in 0..MaxSteps
  /\ \E n \in 0..MaxTransformers : rw_transformers_ \in [1..n -> TransformerKinds]
  /\ rw_graph \in {0, 1}
  /\ rw_pc = "loop"
  /\ rw_step = 0
  /\ rw_idx = 0
  /\ rw_changed = FALSE
  /\ rw_status = "none"
  /\ rw_passes = 0
  /\ rw_applied = 0
  /\ ExecutorIdle /\ SessionIdle /\ CopyIdle /\ FusionIdle /\ LaterIdle

\* The condition of the pass loop.
PassesRemain_OneMore(step, steps) == step <= steps
PassesRemain(step, steps) == step < steps

\* Whether the loop goes on after a pass.
RunsAgain_Always(changed) == TRUE
RunsAgain(changed) == changed

\* The head of the loop: another pass begins.
BeginPass ==
  /\ rw_pc = "loop"
  /\ PassesRemain(rw_step, rw_steps_)
  /\ rw_pc' = "pass"
  /\ rw_idx' = 1
  /\ rw_changed' = FALSE
  /\ UNCHANGED <<nonRewriterVars, rw_steps_, rw_transformers_, rw_graph, rw_step, rw_status,
                 rw_passes, rw_applied>>

\* Inside a pass: the next transformer is applied; an error ends ApplyAll.
ApplyTransformer ==
  /\ rw_pc = "pass"
  /\ rw_idx <= Len(rw_transformers_)
  /\ LET r == Apply(rw_transformers_[rw_idx], rw_graph)
     IN  /\ rw_graph' = r.graph
         /\ rw_applied' = rw_applied + 1
         /\ IF r.status # "OK"
              THEN /\ rw_status' = r.status
                   /\ rw_pc' = "done"
                   /\ rw_passes' = rw_passes + 1
                   /\ UNCHANGED <<rw_idx, rw_changed>>
              ELSE /\ rw_changed' = (rw_changed \/ r.modified)
                   /\ rw_idx' = rw_idx + 1
                   /\ UNCHANGED <<rw_status, rw_pc, rw_passes>>
  /\ UNCHANGED <<nonRewriterVars, rw_steps_, rw_transformers_, rw_step>>

\* The end of a pass: the loop is left when nothing was modified.
EndPass ==
  /\ rw_pc = "pass"
  /\ rw_idx > Len(rw_transformers_)
  /\ rw_passes' = rw_passes + 1
  /\ IF RunsAgain(rw_changed)
       THEN rw_step' = rw_step + 1 /\ rw_pc' = "loop" /\ UNCHANGED rw_status
       ELSE rw_pc' = "done" /\ rw_status' = "OK" /\ UNCHANGED rw_step
  /\ UNCHANGED <<nonRewriterVars, rw_steps_, rw_transformers_, rw_graph, rw_idx, rw_changed,
                 rw_applied>>

\* The cap is reached: return Status::OK().
ApplyAllReturn ==
  /\ rw_pc = "loop"
  /\ ~PassesRemain(rw_step, rw_steps_)
  /\ rw_pc' = "done"
  /\ rw_status' = "OK"
  /\ UNCHANGED <<nonRewriterVars, rw_steps_, rw_transformers_, rw_graph, rw_step, rw_idx,
                 rw_changed, rw_passes, rw_applied>>

RewriterNext == BeginPass \/ ApplyTransformer \/ EndPass \/ ApplyAllReturn

RewriterSpec == RewriterInit /\ [][RewriterNext]_vars

\* ------------------------------------------------------------ claim C19
\* C19: ApplyAll makes at most steps_ passes, hence at most steps_ times the
\* number of registered transformers calls of Apply, so it ends; it ends at the end
\* of the first pass in which no transformer reported a modification; and it is
\* never stuck before it has returned.
C19_ApplyAllHalts ==
  /\ [](rw_pc # "done" => ENABLED RewriterNext)
  /\ [][/\ rw_passes' <= rw_steps_
        /\ rw_applied' <= rw_steps_ * Len(rw_transformers_)
        /\ (rw_passes' = rw_passes + 1 /\ rw_status' # "FAIL" /\ ~rw_changed) =>
             rw_pc' = "done" /\ rw_status' = "OK"
       ]_vars

\* ApplyAll returned OK at the cap of three passes with two transformers that undo
\* each other's change in every pass.
C19_Witness ==
  /\ rw_pc = "done" /\ rw_status = "OK"
  /\ rw_transformers_ = <<"Add", "Remove">>
  /\ rw_steps_ = MaxSteps /\ rw_passes = MaxSteps
  /\ rw_changed

\* ------------------------------- ConvBNFusion::Apply and ConvMulFusion::Apply
\* The two functions have the same structure; "X" stands for the node type that is
\* fused into the Conv (BatchNormalization, respectively Mul).
GraphNodes == 1..MaxGraphNodes

\* The edges a graph can have: from a node to one of the next two.
GraphEdges == {e \in GraphNodes \X GraphNodes : e[2] \in {e[1] + 1, e[1] + 2}}

OutputNodes(n) == {m \in GraphNodes : <<n, m>> \in fu_edges}
InputNodes(n) == {m \in GraphNodes : <<m, n>> \in fu_edges}

\* The input definitions as the graph gives them to Apply.  A node removed
\* earlier in the pass without Resolve (EliminateIdentity::Apply) has handed its
\* input definition to its consumers.
GivenInputDefs(output_edges, live_nodes, n) ==
  {p \in live_nodes : <<p, n>> \in output_edges}
  \cup {q \in GraphNodes : \E d \in GraphNodes \ live_nodes :
                              <<d, n>> \in output_edges /\ <<q, d>> \in output_edges}

\* Graph outputs are the outputs that no node consumes.
IsNodeOutputsInGraphOutputs(n) == OutputNodes(n) = {}

SetToSeq(S) ==
  LET RECURSIVE Build(_)
      Build(T) == IF T = {} THEN <<>> ELSE <<Min(T)>> \o Build(T \ {Min(T)})
  IN  Build(S)

\* The versions the rules ask for: Conv 1, BatchNormalization and Mul 7.
ConvVersion == 1
XVersion == 7

kOnnxDomainAlias == "ai.onnx"
Domains == {"", kOnnxDomainAlias, "com.microsoft"}
Schemas == [deprecated : BOOLEAN, since_version : {ConvVersion, XVersion}, domain : Domains]

\* The schema with which a node of this type passes the gate of the rules.
SupportedSchema(op) ==
  [deprecated |-> FALSE, since_version |-> IF op = "Conv" THEN ConvVersion ELSE XVersion,
   domain |-> ""]

\* The node as graph_edit_utils reads it.
Node(n) ==
  [op_type |-> fu_op[n], deprecated |-> fu_schema[n].deprecated,
   since_version |-> fu_schema[n].since_version, domain |-> fu_schema[n].domain]

\* graph_edit_utils::IsSupportedOptypeVersionAndDomain
IsSupportedOptypeVersionAndDomain_IgnoresDeprecated(node, op_type, version, domain) ==
  IF node.op_type # op_type
     \/ node.since_version # version
     \/ (node.domain # "" /\ node.domain # domain)
    THEN FALSE
    ELSE TRUE
IsSupportedOptypeVersionAndDomain(node, op_type, version, domain) ==
  IF node.op_type # op_type
     \/ node.deprecated \/ node.since_version # version
     \/ (node.domain # "" /\ node.domain # domain)
    THEN FALSE
    ELSE TRUE

\* The graph Apply is called on: any node types and edges; at most one node was
\* removed since the last Resolve, and it was an Identity.
FusionInit ==
  /\ fu_op \in [GraphNodes -> {"Conv", "X", "Other"}]
  /\ fu_schema = [n \in GraphNodes |-> SupportedSchema(fu_op[n])]
  /\ fu_edges \in SUBSET GraphEdges
  /\ fu_live \in {GraphNodes} \cup {GraphNodes \ {d} : d \in {n \in GraphNodes : fu_op[n] = "Other"}}
  /\ fu_input_defs = [n \in GraphNodes |-> GivenInputDefs(fu_edges, fu_live, n)]
  /\ fu_fused = {}
  /\ fu_it = 1
  /\ fu_pc = "scan"
  /\ fu_pair = <<0, 0>>
  /\ fu_todo = <<>>
  /\ fu_removed_nodes = <<>>
  /\ fu_modified = FALSE
  /\ fu_resolved = FALSE
  /\ fu_status = "none"
  /\ ExecutorIdle /\ SessionIdle /\ CopyIdle /\ RewriterIdle /\ LaterIdle

\* The first two tests of the loop body.
IsCandidate_IgnoresGraphOutputs(n) ==
  /\ IsSupportedOptypeVersionAndDomain(Node(n), "Conv", ConvVersion, kOnnxDomainAlias)
  /\ Cardinality(OutputNodes(n)) = 1
  /\ \E next_node \in OutputNodes(n) :
       /\ IsSupportedOptypeVersionAndDomain(Node(next_node), "X", XVersion, kOnnxDomainAlias)
       /\ Cardinality(InputNodes(next_node)) = 1
IsCandidate(n) ==
  /\ IsSupportedOptypeVersionAndDomain(Node(n), "Conv", ConvVersion, kOnnxDomainAlias)
  /\ Cardinality(OutputNodes(n)) = 1
  /\ \E next_node \in OutputNodes(n) :
       /\ IsSupportedOptypeVersionAndDomain(Node(next_node), "X", XVersion, kOnnxDomainAlias)
       /\ Cardinality(InputNodes(next_node)) = 1
       /\ ~IsNodeOutputsInGraphOutputs(next_node)

NextNode(n) == CHOOSE next_node \in OutputNodes(n) : TRUE

\* One iteration of the loop over graph.Nodes() up to the rewiring loop: a node
\* that fails a test is skipped; for one that passes them all (the tests of the
\* attributes and initializers included) the Conv initializers are replaced.
ExamineNode ==
  /\ fu_pc = "scan"
  /\ fu_it <= MaxGraphNodes
  /\ \E supported \in BOOLEAN :
       IF fu_it \in fu_live /\ IsCandidate(fu_it) /\ supported
         THEN /\ fu_fused' = fu_fused \cup {fu_it}
              /\ fu_pair' = <<fu_it, NextNode(fu_it)>>
              /\ fu_todo' = SetToSeq(OutputNodes(NextNode(fu_it)))
              /\ fu_pc' = "rewire"
              /\ UNCHANGED fu_it
         ELSE /\ fu_it' = fu_it + 1
              /\ UNCHANGED <<fu_fused, fu_pair, fu_todo, fu_pc>>
  /\ UNCHANGED <<nonFusionVars, fu_op, fu_schema, fu_edges, fu_live, fu_input_defs,
                 fu_removed_nodes, fu_modified, fu_resolved, fu_status>>

\* graph.GetNode(index): null for a removed node.
GetNode_AlwaysFound(index) == index
GetNode(index) == IF index \in fu_live THEN index ELSE 0

\* One iteration of the rewiring loop: the output node's input definitions that
\* name the next node's output are replaced by the Conv's output; a null output
\* node ends Apply with INVALID_ARGUMENT.
RewireOutputNode ==
  /\ fu_pc = "rewire"
  /\ fu_todo # <<>>
  /\ LET output_node == GetNode(Head(fu_todo))
     IN  IF output_node = 0
           THEN /\ fu_status' = "INVALID_ARGUMENT"
                /\ fu_pc' = "done"
                /\ UNCHANGED <<fu_input_defs, fu_todo>>
           ELSE /\ fu_input_defs' =
                     [fu_input_defs EXCEPT ![output_node] =
                        IF fu_pair[2] \in @ THEN (@ \ {fu_pair[2]}) \cup {fu_pair[1]} ELSE @]
                /\ fu_todo' = Tail(fu_todo)
                /\ UNCHANGED <<fu_status, fu_pc>>
  /\ UNCHANGED <<nonFusionVars, fu_op, fu_schema, fu_edges, fu_live, fu_fused, fu_it, fu_pair,
                 fu_removed_nodes, fu_modified, fu_resolved>>

\* The rewiring loop is over: removed_nodes.push_back, next node of the graph.
EndOfPair ==
  /\ fu_pc = "rewire"
  /\ fu_todo = <<>>
  /\ fu_removed_nodes' = Append(fu_removed_nodes, fu_pair[2])
  /\ fu_it' = fu_it + 1
  /\ fu_pc' = "scan"
  /\ UNCHANGED <<nonFusionVars, fu_op, fu_schema, fu_edges, fu_live, fu_input_defs, fu_fused,
                 fu_pair, fu_todo, fu_modified, fu_resolved, fu_status>>

\* After the loop: the nodes of removed_nodes are removed; when there are any,
\* modified is set and the result of graph.Resolve() is returned.
RemoveAndResolve ==
  /\ fu_pc = "scan"
  /\ fu_it > MaxGraphNodes
  /\ fu_live' = fu_live \ {fu_removed_nodes[i] : i \in 1..Len(fu_removed_nodes)}
  /\ fu_modified' = (fu_removed_nodes # <<>>)
  /\ fu_resolved' = (fu_removed_nodes # <<>>)
  /\ \E resolved \in {"OK", "FAIL"} :
       fu_status' = IF fu_removed_nodes # <<>> THEN resolved ELSE "OK"
  /\ fu_pc' = "done"
  /\ UNCHANGED <<nonFusionVars, fu_op, fu_schema, fu_edges, fu_input_defs, fu_fused, fu_it,
                 fu_pair, fu_todo, fu_removed_nodes>>

FusionNext == ExamineNode \/ RewireOutputNode \/ EndOfPair \/ RemoveAndResolve

FusionSpec == FusionInit /\ [][FusionNext]_vars

\* Apply on the graph Conv-or-not (1) -> X-or-not (2) -> 3, with any schema for
\* nodes 1 and 2.
GateInit ==
  /\ fu_op \in {f \in [GraphNodes -> {"Conv", "X", "Other"}] :
                  \A n \in GraphNodes : n > 2 => f[n] = "Other"}
  /\ fu_schema \in {f \in [GraphNodes -> Schemas] :
                      \A n \in GraphNodes : n > 2 => f[n] = SupportedSchema("Other")}
  /\ fu_edges = {<<1, 2>>, <<2, 3>>}
  /\ fu_live = GraphNodes
  /\ fu_input_defs = [n \in GraphNodes |-> GivenInputDefs(fu_edges, fu_live, n)]
  /\ fu_fused = {}
  /\ fu_it = 1
  /\ fu_pc = "scan"
  /\ fu_pair = <<0, 0>>
  /\ fu_todo = <<>>
  /\ fu_removed_nodes = <<>>
  /\ fu_modified = FALSE
  /\ fu_resolved = FALSE
  /\ fu_status = "none"
  /\ ExecutorIdle /\ SessionIdle /\ CopyIdle /\ RewriterIdle /\ LaterIdle

GateSpec == GateInit /\ [][FusionNext]_vars

\* ------------------------------------------------------------ claim C20
\* The Conv -> X pairs of the graph.
CandidatePairs == {e \in fu_edges : fu_op[e[1]] = "Conv" /\ fu_op[e[2]] = "X"}

\* The nodes that were live when Apply was called: Apply removes only X nodes.
GivenLive == fu_live \cup {n \in GraphNodes : fu_op[n] = "X"}
GivenDefs(n) == GivenInputDefs(fu_edges, GivenLive, n)

FullyApplied(conv, x) ==
  /\ conv \in fu_fused
  /\ x \notin fu_live
  /\ \A n \in GraphNodes : x \notin fu_input_defs[n]

Untouched(conv, x) ==
  /\ conv \notin fu_fused
  /\ x \in fu_live
  /\ \A n \in GraphNodes : x \in GivenDefs(n) => x \in fu_input_defs[n]

\* C20 as stated: when Apply has returned, with whatever Status, each Conv -> X pair
\* of the graph is either fused completely (Conv initializers replaced, no input
\* definition names X's output any more, X removed) or not at all (initializers,
\* input definitions and X as they were).
C20_FusionIsTransactional ==
  fu_pc = "done" =>
    \A e \in CandidatePairs : FullyApplied(e[1], e[2]) \/ Untouched(e[1], e[2])

\* ------------------------------------------------------------ claim C22
\* The Conv's single output edge goes to an X node that has no other input edge
\* and whose output is consumed by a node (so it is not a graph output).
QualifiesForFusion(n) ==
  /\ fu_op[n] = "Conv"
  /\ \E x \in GraphNodes :
       /\ OutputNodes(n) = {x}
       /\ fu_op[x] = "X"
       /\ InputNodes(x) = {n}
       /\ OutputNodes(x) # {}

FusedConsumers == {x \in GraphNodes : \E c \in fu_fused : OutputNodes(c) = {x}}

FormerConsumers(x) == {n \in GraphNodes : x \in GivenDefs(n)}

PassesGate(n, op_type, version, domain) ==
  /\ fu_op[n] = op_type
  /\ ~fu_schema[n].deprecated
  /\ fu_schema[n].since_version = version
  /\ (fu_schema[n].domain = "" \/ fu_schema[n].domain = domain)

\* The node fails the gate as a Conv, or its single consumer fails it as an X.
FailsGate(n) ==
  \/ ~PassesGate(n, "Conv", ConvVersion, kOnnxDomainAlias)
  \/ \E next_node \in GraphNodes :
       /\ OutputNodes(n) = {next_node}
       /\ ~PassesGate(next_node, "X", XVersion, kOnnxDomainAlias)

GraphUntouched ==
  /\ fu_live = GraphNodes
  /\ fu_input_defs = [n \in GraphNodes |-> GivenInputDefs(fu_edges, GraphNodes, n)]
  /\ fu_fused = {}
  /\ fu_removed_nodes = <<>>

\* C29: IsSupportedOptypeVersionAndDomain is true exactly when the op type is the
\* one asked for, the schema is not deprecated, the since-version is the one asked
\* for and the domain is empty or the one asked for; the loop step on a node that
\* fails the gate (itself, or its consumer) goes to the next node and changes
\* neither the graph nor modified nor the status; no such node is ever fused; and
\* when every node fails the gate Apply returns OK with the graph as it was and
\* modified false.
C29_GateSkipsSilently ==
  /\ [](\A n \in GraphNodes, op_type \in {"Conv", "X", "Other"},
           version \in {ConvVersion, XVersion}, domain \in Domains :
          IsSupportedOptypeVersionAndDomain(Node(n), op_type, version, domain)
            <=> PassesGate(n, op_type, version, domain))
  /\ [](\A n \in fu_fused : ~FailsGate(n))
  /\ []((fu_pc = "done" /\ \A n \in GraphNodes : FailsGate(n)) =>
          GraphUntouched /\ ~fu_modified /\ fu_status = "OK")
  /\ [][(fu_pc = "scan" /\ fu_it <= MaxGraphNodes /\ FailsGate(fu_it)) =>
          /\ fu_it' = fu_it + 1 /\ fu_pc' = "scan"
          /\ UNCHANGED <<fu_live, fu_input_defs, fu_fused, fu_removed_nodes,
                         fu_modified, fu_status>>
       ]_vars

\* Apply returned on Conv -> X -> node where the Conv's schema is deprecated and
\* everything else would allow the fusion.
C29_Witness ==
  /\ fu_pc = "done" /\ fu_status = "OK" /\ ~fu_modified /\ GraphUntouched
  /\ fu_op[1] = "Conv" /\ fu_op[2] = "X"
  /\ fu_schema[1] = [SupportedSchema("Conv") EXCEPT !.deprecated = TRUE]
  /\ fu_schema[2] = SupportedSchema("X")

\* ------------------- the initializer arithmetic of ConvBNFusion and ConvMulFusion
RECURSIVE Product(_)
Product(dims) == IF dims = <<>> THEN 1 ELSE Head(dims) * Product(Tail(dims))

\* Initializer::IsSupportedDataType: float or double, and not a null pointer.
IsSupportedDataType(tensor_proto) == tensor_proto.data_type \in {"float", "double"}

\* The element-wise operations of Initializer, on numbers for which they are exact.
add_value(t, value) == [t EXCEPT !.data = [i \in DOMAIN t.data |-> t.data[i] + value]]
sqrt(t) ==
  [t EXCEPT !.data = [i \in DOMAIN t.data |->
                        CHOOSE r \in 0..t.data[i] : r * r <= t.data[i] /\ t.data[i] < (r + 1) * (r + 1)]]
div(t, other) == [t EXCEPT !.data = [i \in DOMAIN t.data |-> t.data[i] \div other.data[i]]]
mul(t, other) == [t EXCEPT !.data = [i \in DOMAIN t.data |-> t.data[i] * other.data[i]]]
sub(t, other) == [t EXCEPT !.data = [i \in DOMAIN t.data |-> t.data[i] - other.data[i]]]
add(t, other) == [t EXCEPT !.data = [i \in DOMAIN t.data |-> t.data[i] + other.data[i]]]

\* Initializer::scale_by_axis: the tensor is seen as n rows of num elements, num the
\* product of the dimensions from axis on; row i is multiplied by other[i], or by
\* other[0] when other has one element.
scale_by_axis(t, other, axis) ==
  LET num == Product(SubSeq(t.dims, axis + 1, Len(t.dims)))
  IN  [t EXCEPT !.data = [e \in DOMAIN t.data |->
                            t.data[e] * other.data[IF Len(other.data) = 1
                                                     THEN 1 ELSE ((e - 1) \div num) + 1]]]

\* The tests of ConvBNFusion::Apply on the initializers.
ConvBNTests(conv, bn) ==
  /\ IsSupportedDataType(bn.scale) /\ IsSupportedDataType(bn.B)
  /\ IsSupportedDataType(bn.mean) /\ IsSupportedDataType(bn.var)
  /\ IsSupportedDataType(conv.W)
  /\ Len(bn.scale.dims) = 1 /\ Len(bn.B.dims) = 1
  /\ Len(bn.mean.dims) = 1 /\ Len(bn.var.dims) = 1
  /\ bn.scale.dims[1] = bn.B.dims[1]
  /\ bn.B.dims[1] = bn.mean.dims[1]
  /\ bn.mean.dims[1] = bn.var.dims[1]
  /\ bn.scale.data_type = bn.B.data_type
  /\ bn.B.data_type = bn.mean.data_type
  /\ bn.mean.data_type = bn.var.data_type
  /\ conv.W.data_type = bn.scale.data_type
  /\ Len(conv.W.dims) > 2 /\ conv.W.dims[1] = bn.scale.dims[1]
  /\ conv.inputs_size = 3 =>
       /\ conv.B # NoTensor
       /\ IsSupportedDataType(conv.B)
       /\ Len(conv.B.dims) = 1
       /\ conv.B.dims[1] = bn.B.dims[1]
       /\ conv.B.data_type = bn.B.data_type

\* "Calculate new value of initializers of conv node".
ConvBNInitializers_MeanNotScaled(conv, bn) ==
  LET bn_var == sqrt(add_value(bn.var, bn.epsilon))
      bn_scale == div(bn.scale, bn_var)
  IN  [W |-> scale_by_axis(conv.W, bn_scale, 1),
       B |-> IF conv.inputs_size = 3
               THEN add(mul(sub(conv.B, bn.mean), bn_scale), bn.B)
               ELSE sub(bn.B, bn.mean)]
ConvBNInitializers(conv, bn) ==
  LET bn_var == sqrt(add_value(bn.var, bn.epsilon))
      bn_scale == div(bn.scale, bn_var)
  IN  [W |-> scale_by_axis(conv.W, bn_scale, 1),
       B |-> IF conv.inputs_size = 3
               THEN add(mul(sub(conv.B, bn.mean), bn_scale), bn.B)
               ELSE sub(bn.B, mul(bn.mean, bn_scale))]

\* The tests of ConvMulFusion::Apply on the initializers.
ConvMulTests_AnyShape(conv, mul_B) ==
  /\ IsSupportedDataType(conv.W) /\ IsSupportedDataType(mul_B)
  /\ conv.W.data_type = mul_B.data_type
  /\ ~(Len(conv.W.dims) < 4)
  /\ \/ Len(mul_B.dims) = 0
     \/ /\ Len(mul_B.dims) = Len(conv.W.dims) - 1
        /\ conv.W.dims[1] = mul_B.dims[1]
  /\ conv.inputs_size = 3 =>
       /\ conv.B # NoTensor
       /\ IsSupportedDataType(conv.B)
       /\ conv.B.data_type = mul_B.data_type
       /\ Len(conv.B.dims) = 1
       /\ (Len(mul_B.dims) # 0 => conv.B.dims[1] = mul_B.dims[1])
ConvMulTests(conv, mul_B) ==
  /\ IsSupportedDataType(conv.W) /\ IsSupportedDataType(mul_B)
  /\ conv.W.data_type = mul_B.data_type
  /\ ~(Len(conv.W.dims) < 4)
  /\ \/ Len(mul_B.dims) = 0
     \/ /\ Len(mul_B.dims) = Len(conv.W.dims) - 1
        /\ conv.W.dims[1] = mul_B.dims[1]
  /\ Len(mul_B.dims) # 0 => ~\E i \in 2..Len(mul_B.dims) : mul_B.dims[i] # 1
  /\ conv.inputs_size = 3 =>
       /\ conv.B # NoTensor
       /\ IsSupportedDataType(conv.B)
       /\ conv.B.data_type = mul_B.data_type
       /\ Len(conv.B.dims) = 1
       /\ (Len(mul_B.dims) # 0 => conv.B.dims[1] = mul_B.dims[1])

ConvMulInitializers(conv, mul_B) ==
  [W |-> scale_by_axis(conv.W, mul_B, 1),
   B |-> IF conv.inputs_size = 3
           THEN IF Len(mul_B.dims) # 0
                  THEN mul(conv.B, mul_B)
                  ELSE scale_by_axis(conv.B, mul_B, 0)
           ELSE conv.B]

\* The tensors of the given types and shapes; a and b give the data a * i + b.
Tensors(data_types, shapes, coefficients) ==
  {[data_type |-> t, dims |-> d, data |-> [i \in 1..Product(d) |-> c[1] * i + c[2]]] :
     t \in data_types, d \in shapes, c \in coefficients}

ChannelShapes == {<<n>> : n \in (MaxChannels - 1)..MaxChannels}

\* A Conv with weights of rank 4 or 3, without a bias input, or with one that is an
\* initializer (of one element per output channel) or not.
ConvNodes ==
  LET Ws == Tensors({"float", "double", "int64"},
                    {<<MaxChannels, KernelSize, 1, 1>>, <<MaxChannels, KernelSize, 1>>},
                    {<<1, 0>>})
  IN  {[inputs_size |-> 2, W |-> w, B |-> NoTensor] : w \in Ws}
      \cup {[inputs_size |-> 3, W |-> w, B |-> b] :
              w \in Ws,
              b \in {NoTensor} \cup Tensors({"float", "double"}, {<<MaxChannels>>},
                                            {<<1, 4>>, <<-2, 1>>})}

\* The scale factors are multiples of every square root that occurs, and var + epsilon
\* is a square: the divisions and roots are exact.
ScaleUnit == Product([i \in 1..MaxChannels |-> i])

ConvBNInit ==
  /\ cv_conv \in ConvNodes
  /\ cv_bn \in [epsilon : {1},
                scale : Tensors({"float", "double"}, ChannelShapes,
                                {<<ScaleUnit, 0>>, <<-ScaleUnit, ScaleUnit>>}),
                B : Tensors({"float", "double"}, ChannelShapes, {<<-1, 3>>}),
                mean : Tensors({"float"}, ChannelShapes, {<<1, 0>>}),
                var : {[t EXCEPT !.data = [i \in DOMAIN t.data |-> t.data[i] * t.data[i] - 1]] :
                         t \in Tensors({"float"}, {<<MaxChannels>>},
                                       {<<1, 0>>, <<-1, MaxChannels + 1>>, <<0, 1>>})}]
  /\ cv_mul_B = NoTensor
  /\ cv_new = [W |-> cv_conv.W, B |-> cv_conv.B]
  /\ cv_fused = FALSE
  /\ cv_pc = "start"
  /\ BaseIdle /\ IdentityIdle /\ SliceIdle /\ ManagerIdle /\ ReverseIdle /\ CustomSliceIdle /\ ShareIdle /\ PoolIdle /\ MatchIdle

\* ConvBNFusion::Apply on the initializers of one pair that passed the tests of
\* the nodes: the tests of the tensors, the new values, the replacement.
FuseConvBN ==
  /\ cv_pc = "start"
  /\ IF ConvBNTests(cv_conv, cv_bn)
       THEN /\ cv_new' = ConvBNInitializers(cv_conv, cv_bn)
            /\ cv_fused' = TRUE
       ELSE UNCHANGED <<cv_new, cv_fused>>
  /\ cv_pc' = "done"
  /\ UNCHANGED <<nonConvVars, cv_conv, cv_bn, cv_mul_B>>

ConvBNSpec == ConvBNInit /\ [][FuseConvBN]_vars

ConvMulInit ==
  /\ cv_conv \in ConvNodes
  /\ cv_bn = [epsilon |-> 0, scale |-> NoTensor, B |-> NoTensor, mean |-> NoTensor,
              var |-> NoTensor]
  /\ cv_mul_B \in {NoTensor}
                  \cup Tensors({"float", "double"},
                               {<<>>, <<MaxChannels, 1, 1>>, <<MaxChannels, 1>>,
                                <<MaxChannels, 1, 2>>, <<MaxChannels + 1, 1, 1>>},
                               {<<1, 1>>, <<-3, 2>>})
  /\ cv_new = [W |-> cv_conv.W, B |-> cv_conv.B]
  /\ cv_fused = FALSE
  /\ cv_pc = "start"
  /\ BaseIdle /\ IdentityIdle /\ SliceIdle /\ ManagerIdle /\ ReverseIdle /\ CustomSliceIdle /\ ShareIdle /\ PoolIdle /\ MatchIdle

\* ConvMulFusion::Apply on the initializers of one pair.
FuseConvMul ==
  /\ cv_pc = "start"
  /\ IF ConvMulTests(cv_conv, cv_mul_B)
       THEN /\ cv_new' = ConvMulInitializers(cv_conv, cv_mul_B)
            /\ cv_fused' = TRUE
       ELSE UNCHANGED <<cv_new, cv_fused>>
  /\ cv_pc' = "done"
  /\ UNCHANGED <<nonConvVars, cv_conv, cv_bn, cv_mul_B>>

ConvMulSpec == ConvMulInit /\ [][FuseConvMul]_vars

\* ------------------------------------------------------------ claim C23
\* The inputs on which the nodes are compared: one value per input channel.
ConvInputs == [1..KernelSize -> {-1, 0, 2}]

RECURSIVE Dot(_, _, _)
Dot(w, x, k) == IF k = 0 THEN 0 ELSE w[k] * x[k] + Dot(w, x, k - 1)

\* Conv with a 1 x 1 kernel at one position: output channel c of input x.
ConvOutput(W, B, x, c) ==
  Dot([k \in 1..KernelSize |-> W.data[(c - 1) * KernelSize + k]], x, KernelSize)
  + (IF B = NoTensor THEN 0 ELSE B.data[c])

\* BatchNormalization of the value y of channel c, in inference mode.
BatchNormalization(bn, y, c) ==
  (bn.scale.data[c] * (y - bn.mean.data[c])) \div sqrt(add_value(bn.var, bn.epsilon)).data[c]
  + bn.B.data[c]

\* C23: after a fusion of Conv and BatchNormalization, with s[c] = scale[c] /
\* sqrt(var[c] + epsilon), the Conv's weight is W scaled by s[c] along output
\* channel c, its bias is (b[c] - mean[c]) * s[c] + B[c] when the Conv had a bias b
\* and B[c] - mean[c] * s[c] otherwise, and on every input the fused Conv gives
\* what BatchNormalization gave on the Conv's output.
C23_FusedConvComputesBNOfConv ==
  (cv_pc = "done" /\ cv_fused) =>
    LET s == [c \in 1..MaxChannels |->
                cv_bn.scale.data[c] \div sqrt(add_value(cv_bn.var, cv_bn.epsilon)).data[c]]
    IN  \A c \in 1..MaxChannels :
          /\ \A k \in 1..KernelSize :
               cv_new.W.data[(c - 1) * KernelSize + k]
                 = cv_conv.W.data[(c - 1) * KernelSize + k] * s[c]
          /\ cv_new.W.dims = cv_conv.W.dims
          /\ cv_new.B.data[c] = IF cv_conv.inputs_size = 3
                                  THEN (cv_conv.B.data[c] - cv_bn.mean.data[c]) * s[c]
                                       + cv_bn.B.data[c]
                                  ELSE cv_bn.B.data[c] - cv_bn.mean.data[c] * s[c]
          /\ \A x \in ConvInputs :
               ConvOutput(cv_new.W, cv_new.B, x, c)
                 = BatchNormalization(cv_bn, ConvOutput(cv_conv.W, cv_conv.B, x, c), c)

\* A Conv without bias was fused with a BatchNormalization whose mean is not zero
\* and whose scale factors differ between the channels.
C23_Witness ==
  /\ cv_pc = "done" /\ cv_fused
  /\ cv_conv.inputs_size = 2
  /\ cv_bn.scale.data = <<2, 4>> /\ cv_bn.var.data = <<3, 0>>
  /\ cv_bn.mean.data = <<1, 2>> /\ cv_bn.B.data = <<2, 1>>
  /\ cv_new.W.data # cv_conv.W.data
  /\ cv_new.B.data = <<2 - 1 * 1, 1 - 2 * 4>>

\* ------------------------------------------------------------ claim C24
\* Mul(y, factor) for the value y of channel c: the factor is broadcast.
MulOutput(factor, y, c) == y * factor.data[IF factor.dims = <<>> THEN 1 ELSE c]

\* C24: ConvMulFusion fuses only when the Mul's second input is an initializer of
\* the type of the Conv's weight that is a scalar or has W.dims(0) as first
\* dimension and 1 as every other; then the Conv's weight is W multiplied per output
\* channel by the factor, its bias (if it has one) is multiplied by the same
\* factor, and on every input the fused Conv gives what Mul gave on the Conv's
\* output.
C24_FusedConvComputesMulOfConv ==
  (cv_pc = "done" /\ cv_fused) =>
    /\ cv_mul_B # NoTensor
    /\ cv_mul_B.data_type = cv_conv.W.data_type
    /\ \/ cv_mul_B.dims = <<>>
       \/ /\ cv_mul_B.dims[1] = cv_conv.W.dims[1]
          /\ \A i \in 2..Len(cv_mul_B.dims) : cv_mul_B.dims[i] = 1
    /\ \A c \in 1..MaxChannels :
         /\ \A k \in 1..KernelSize :
              cv_new.W.data[(c - 1) * KernelSize + k]
                = MulOutput(cv_mul_B, cv_conv.W.data[(c - 1) * KernelSize + k], c)
         /\ cv_new.W.dims = cv_conv.W.dims
         /\ IF cv_conv.inputs_size = 3
              THEN cv_new.B.data[c] = MulOutput(cv_mul_B, cv_conv.B.data[c], c)
              ELSE cv_new.B = NoTensor
         /\ \A x \in ConvInputs :
              ConvOutput(cv_new.W, cv_new.B, x, c)
                = MulOutput(cv_mul_B, ConvOutput(cv_conv.W, cv_conv.B, x, c), c)

\* A Conv with a bias was fused with a Mul by one factor per channel.
C24_Witness ==
  /\ cv_pc = "done" /\ cv_fused
  /\ cv_conv.inputs_size = 3
  /\ cv_mul_B.dims = <<MaxChannels, 1, 1>>
  /\ cv_mul_B.data[1] # cv_mul_B.data[MaxChannels]
  /\ cv_new.B.data # cv_conv.B.data

\* ------------------------------- EliminateIdentity::Apply on the nodes of a graph
RuleNodes == 1..MaxRuleNodes

\* The nodes whose input definition names the output of node n: node n's output
\* nodes.
Consumers(n) == {m \in RuleNodes : id_input[m] = n}

\* A graph in topological order: every node reads the graph input or the output of
\* an earlier node; some node outputs are declared graph outputs.
IdentityInit ==
  /\ id_op \in [RuleNodes -> {"Identity", "Other"}]
  /\ id_input \in {f \in [RuleNodes -> 0..MaxRuleNodes] : \A n \in RuleNodes : f[n] < n}
  /\ id_given = id_input
  /\ id_outputs \in SUBSET RuleNodes \ {{}}
  /\ id_live = RuleNodes
  /\ id_it = 1
  /\ id_modified = FALSE
  /\ id_pc = "scan"
  /\ BaseIdle /\ ConvIdle /\ SliceIdle /\ ManagerIdle /\ ReverseIdle /\ CustomSliceIdle /\ ShareIdle /\ PoolIdle /\ MatchIdle

\* EliminateIdentity::SatisfyCondition: "No additional condition required."
SatisfyCondition(node) == TRUE

\* The transformer is at an Identity node: SatisfyCondition, then Apply, which
\* replaces the definition of the node's output by that of its input in every output
\* node, sets modified once per output node, and removes the node.
EliminateIdentity ==
  /\ id_pc = "scan" /\ id_it <= MaxRuleNodes
  /\ id_op[id_it] = "Identity" /\ SatisfyCondition(id_it)
  /\ id_input' = [m \in RuleNodes |->
                    IF m \in Consumers(id_it) THEN id_input[id_it] ELSE id_input[m]]
  /\ id_modified' = (id_modified \/ Consumers(id_it) # {})
  /\ id_live' = id_live \ {id_it}
  /\ id_it' = id_it + 1
  /\ UNCHANGED <<nonIdentityVars, id_op, id_given, id_outputs, id_pc>>

\* The transformer is at a node the rule does not apply to.
SkipNode ==
  /\ id_pc = "scan" /\ id_it <= MaxRuleNodes
  /\ ~(id_op[id_it] = "Identity" /\ SatisfyCondition(id_it))
  /\ id_it' = id_it + 1
  /\ UNCHANGED <<nonIdentityVars, id_op, id_input, id_given, id_outputs, id_live, id_modified, id_pc>>

\* All nodes were visited.
EndOfNodes ==
  /\ id_pc = "scan" /\ id_it > MaxRuleNodes
  /\ id_pc' = "done"
  /\ UNCHANGED <<nonIdentityVars, id_op, id_input, id_given, id_outputs, id_live, id_it, id_modified>>

IdentityNext == EliminateIdentity \/ SkipNode \/ EndOfNodes

IdentitySpec == IdentityInit /\ [][IdentityNext]_vars

\* ------------------------------------------------------------ claim C26
\* Whether the graph, with the given nodes and input definitions, produces the
\* output of node n, and with which value for the graph input v: an Identity
\* gives its input, another node a value that is a function of the node and of its
\* input.
GraphInputValues == {-3, 0, 2}

RECURSIVE IsProduced(_, _, _)
IsProduced(live, input, n) ==
  n = 0 \/ (n \in live /\ IsProduced(live, input, input[n]))

RECURSIVE ValueOf(_, _, _)
ValueOf(input, n, v) ==
  IF n = 0 THEN v
  ELSE IF id_op[n] = "Identity" THEN ValueOf(input, input[n], v)
  ELSE n + 4 * ValueOf(input, input[n], v)

\* C26: each elimination step hands the Identity's input to every node that read
\* its output and removes the Identity; and in every state each declared graph
\* output is produced by the nodes that remain, with the value the graph gave it
\* before any elimination, for every value of the graph input.
C26_IdentityEliminationIsSafe ==
  /\ [][\A n \in id_live \ id_live' :
          /\ id_op[n] = "Identity"
          /\ \A m \in Consumers(n) : id_input'[m] = id_input[n]
          /\ \A m \in RuleNodes : id_input'[m] # n
       ]_vars
  /\ [](\A o \in id_outputs :
          /\ IsProduced(id_live, id_input, o)
          /\ \A v \in GraphInputValues : ValueOf(id_input, o, v) = ValueOf(id_given, o, v))

\* ----------------------------------------- EliminateSlice on one Slice node
\* The largest integer of the model stands for INT64_MAX.
INT64_MAX == 2147483647

\* The sequences of at most n elements of S, and those without repetition.
SeqsUpTo(S, n) == UNION {[1..k -> S] : k \in 0..n}
Distinct(q) == \A i, j \in DOMAIN q : i # j => q[i] # q[j]

\* An attribute of the node: absent, or a list of integers.
Absent == [has |-> FALSE, ints |-> <<>>]
Attribute(values) == {Absent} \cup {[has |-> TRUE, ints |-> q] : q \in values}

\* A Slice node on an input of rank 1 or 2: starts and ends of at most one element
\* per axis, axes naming different axes of the input.
SliceInit ==
  /\ sl_dims \in UNION {[1..r -> 1..MaxDim] : r \in 1..MaxRank}
  /\ sl_node \in [single_in_out : BOOLEAN,
                  starts : Attribute(SeqsUpTo({-1, 0, 1}, Len(sl_dims))),
                  ends : Attribute(SeqsUpTo({-1, 0, 1, MaxDim, INT64_MAX}, Len(sl_dims))),
                  axes : Attribute({q \in SeqsUpTo(0..(Len(sl_dims) - 1), Len(sl_dims)) :
                                      Distinct(q)})]
  /\ sl_removed = FALSE
  /\ sl_modified = FALSE
  /\ sl_pc = "start"
  /\ BaseIdle /\ ConvIdle /\ IdentityIdle /\ ManagerIdle /\ ReverseIdle /\ CustomSliceIdle /\ ShareIdle /\ PoolIdle /\ MatchIdle

\* The axes the loop of SatisfyCondition runs over: the attribute, or 0, 1, ... for
\* each element of starts.
SlicedAxes(node) ==
  IF node.axes.has THEN node.axes.ints ELSE [i \in 1..Len(node.starts.ints) |-> i - 1]

\* EliminateSlice::SatisfyCondition
EliminateSlice_SatisfyCondition(node) ==
  IF ~node.single_in_out THEN FALSE
  ELSE IF ~node.starts.has \/ ~node.ends.has
          \/ Len(node.starts.ints) # Len(node.ends.ints) THEN FALSE
  ELSE IF node.axes.has /\ (Len(node.axes.ints) # Len(node.starts.ints)
                            \/ Len(node.axes.ints) # Len(node.ends.ints)) THEN FALSE
  ELSE \A i \in 1..Len(SlicedAxes(node)) :
         ~(node.starts.ints[i] > 0 \/ node.starts.ints[i] < 0
           \/ (node.ends.ints[i] > 0 /\ node.ends.ints[i] < INT64_MAX))

\* The transformer on the Slice node: SatisfyCondition, then Apply, which removes
\* the single-in single-out node and sets modified.
ApplyEliminateSlice ==
  /\ sl_pc = "start"
  /\ IF EliminateSlice_SatisfyCondition(sl_node)
       THEN sl_removed' = TRUE /\ sl_modified' = TRUE
       ELSE UNCHANGED <<sl_removed, sl_modified>>
  /\ sl_pc' = "done"
  /\ UNCHANGED <<nonSliceVars, sl_dims, sl_node>>

SliceSpec == SliceInit /\ [][ApplyEliminateSlice]_vars

\* ------------------------------------------------------------ claim C27
\* Slice: a negative start or end counts from the end of the axis, and both are
\* clamped to the axis.
Clamp(value, dim) ==
  LET v == IF value < 0 THEN value + dim ELSE value
  IN  IF v < 0 THEN 0 ELSE IF v > dim THEN dim ELSE v

\* The positions of the given axis (from 0) that the Slice's output keeps.
KeptPositions(dims, node, axis) ==
  IF \E i \in 1..Len(SlicedAxes(node)) : SlicedAxes(node)[i] = axis
    THEN LET i == CHOOSE j \in 1..Len(SlicedAxes(node)) : SlicedAxes(node)[j] = axis
         IN  {p \in 0..(dims[axis + 1] - 1) :
                /\ Clamp(node.starts.ints[i], dims[axis + 1]) <= p
                /\ p < Clamp(node.ends.ints[i], dims[axis + 1])}
    ELSE 0..(dims[axis + 1] - 1)

\* C27: a Slice is removed only if it is single-in single-out, its starts, ends
\* (and axes, if given) have equal lengths, its starts are all 0, its ends reach
\* the end of each sliced axis, and hence its output keeps every position of its
\* input.
C27_RemovesOnlyRedundantSlice ==
  sl_removed =>
    /\ sl_node.single_in_out
    /\ sl_node.starts.has /\ sl_node.ends.has
    /\ Len(sl_node.starts.ints) = Len(sl_node.ends.ints)
    /\ sl_node.axes.has => Len(sl_node.axes.ints) = Len(sl_node.starts.ints)
    /\ \A i \in 1..Len(SlicedAxes(sl_node)) :
         /\ sl_node.starts.ints[i] = 0
         /\ Clamp(sl_node.ends.ints[i], sl_dims[SlicedAxes(sl_node)[i] + 1])
              = sl_dims[SlicedAxes(sl_node)[i] + 1]
    /\ \A axis \in 0..(Len(sl_dims) - 1) :
         KeptPositions(sl_dims, sl_node, axis) = 0..(sl_dims[axis + 1] - 1)

\* ------------------------------------------------------------ claim C37
\* C37: whenever EliminateIdentity::Apply or EliminateSlice::Apply removes a node or
\* replaces an input definition, modified is true on return, and whenever the graph
\* is unchanged Apply does not set modified.
C37_ApplyReportsChanges ==
  [][/\ (id_live' # id_live \/ id_input' # id_input) => id_modified'
     /\ (id_live' = id_live /\ id_input' = id_input) => id_modified' = id_modified
     /\ sl_removed' # sl_removed => sl_modified'
     /\ sl_removed' = sl_removed => sl_modified' = sl_modified]_vars

\* ------------------------- the GraphTransformerManager of one InferenceSession
\* The transformers a user registers: a rule-based transformer with one rule, or a
\* fusion.
UserTransformers ==
  {[name |-> "RuleTransformer1", rules |-> <<"EliminateIdentity">>],
   [name |-> "ConvBNFusion", rules |-> <<>>],
   [name |-> "UnsqueezeElimination", rules |-> <<>>]}

ManagerInit ==
  /\ gm_options \in [max_num_graph_transformation_steps : 0..MaxSteps,
                     enable_default_transformers : BOOLEAN]
  /\ gm_steps_ = 0
  /\ gm_transformers_ = <<>>
  /\ gm_user = <<>>
  /\ gm_pc = "new"
  /\ BaseIdle /\ ConvIdle /\ IdentityIdle /\ SliceIdle /\ ReverseIdle /\ CustomSliceIdle /\ ShareIdle /\ PoolIdle /\ MatchIdle

\* "Register default transformers."
DefaultTransformers_Always(enable_default_transformers) ==
  <<[name |-> "DefaultRuleTransformer", rules |-> <<"ConstantFolding">>]>>
DefaultTransformers(enable_default_transformers) ==
  IF enable_default_transformers
    THEN <<[name |-> "DefaultRuleTransformer", rules |-> <<"ConstantFolding">>]>>
    ELSE <<>>

\* InferenceSession::Impl::Impl constructs graph_transformation_mgr_ from the
\* session options.
GraphTransformerManager ==
  /\ gm_pc = "new"
  /\ gm_steps_' = gm_options.max_num_graph_transformation_steps
  /\ gm_transformers_' = DefaultTransformers(gm_options.enable_default_transformers)
  /\ gm_pc' = "built"
  /\ UNCHANGED <<nonManagerVars, gm_options, gm_user>>

\* GraphTransformerManager::Register, called for a transformer of the user.
Register ==
  /\ gm_pc = "built"
  /\ Len(gm_user) < MaxUserTransformers
  /\ \E transformer \in UserTransformers :
       /\ gm_transformers_' = Append(gm_transformers_, transformer)
       /\ gm_user' = Append(gm_user, transformer)
  /\ UNCHANGED <<nonManagerVars, gm_options, gm_steps_, gm_pc>>

ManagerNext == GraphTransformerManager \/ Register

ManagerSpec == ManagerInit /\ [][ManagerNext]_vars

\* ------------------------------------------------------------ claim C28
\* The rules of the specification's built-in set.
BuiltInRules ==
  {"UnsqueezeElimination", "ConstantFolding", "EliminateIdentity", "EliminateSlice",
   "ConvBNFusion", "ConvMulFusion", "ConvAddFusion"}

\* The rules and fusions that the first n transformers of the manager hold.
RulesOfFirst(n) ==
  UNION {{gm_transformers_[i].name} \cup {gm_transformers_[i].rules[j] :
                                            j \in DOMAIN gm_transformers_[i].rules} :
           i \in 1..n}

\* C28 as stated: with enable_default_transformers set, the manager holds the
\* built-in rule set (Unsqueeze elimination, constant folding, Identity and Slice
\* elimination, the Conv fusions with BatchNormalization, Mul and Add) ahead of
\* the transformers of the user; without it, only the latter.
C28_Original ==
  gm_pc = "built" =>
    LET n == Len(gm_transformers_) - Len(gm_user)
    IN  /\ SubSeq(gm_transformers_, n + 1, Len(gm_transformers_)) = gm_user
        /\ IF gm_options.enable_default_transformers
             THEN BuiltInRules \subseteq RulesOfFirst(n)
             ELSE n = 0

\* C28, amended: with enable_default_transformers set, the manager holds one
\* rule-based transformer, DefaultRuleTransformer, whose only rule is constant
\* folding, ahead of the transformers of the user; without it, only the latter; and
\* steps_ is the option max_num_graph_transformation_steps.
C28_DefaultIsConstantFolding ==
  gm_pc = "built" =>
    LET n == Len(gm_transformers_) - Len(gm_user)
    IN  /\ SubSeq(gm_transformers_, n + 1, Len(gm_transformers_)) = gm_user
        /\ gm_steps_ = gm_options.max_num_graph_transformation_steps
        /\ IF gm_options.enable_default_transformers
             THEN /\ n = 1
                  /\ gm_transformers_[1].name = "DefaultRuleTransformer"
                  /\ gm_transformers_[1].rules = <<"ConstantFolding">>
             ELSE n = 0

\* A manager built with the default transformers, after two registrations.
C28_Witness ==
  /\ gm_pc = "built" /\ gm_options.enable_default_transformers
  /\ Len(gm_user) = 2 /\ Len(gm_transformers_) = 3
  /\ gm_transformers_[1].rules = <<"ConstantFolding">>
  /\ gm_transformers_[3].name = "ConvBNFusion"

\* ------------------------------------- one call of ReverseSequence::Compute
\* The kernel was constructed: seq_axis_ and batch_axis_ are not negative and
\* differ.  seq_lengths is a scalar, or a vector of batch_size or of one more
\* elements, when the input has a batch axis.
ReverseInit ==
  /\ rs_dims \in UNION {[1..r -> 1..MaxSeqDim] : r \in 2..MaxSeqRank}
  /\ rs_batch_axis_ \in 0..(MaxSeqRank - 1)
  /\ rs_seq_axis_ \in 0..(MaxSeqRank - 1) \ {rs_batch_axis_}
  /\ rs_seq_lengths \in
       {[dims |-> <<>>, data |-> <<v>>] : v \in 0..MaxSeqDim}
       \cup UNION {{[dims |-> <<n>>, data |-> q] : q \in [1..n -> 0..MaxSeqDim]} :
                     n \in IF rs_batch_axis_ < Len(rs_dims)
                             THEN {rs_dims[rs_batch_axis_ + 1]} ELSE {1}}
       \cup {[dims |-> <<MaxSeqDim + 1>>, data |-> [i \in 1..(MaxSeqDim + 1) |-> 1]]}
  /\ rs_y = <<>>
  /\ rs_status = "none"
  /\ BaseIdle /\ ConvIdle /\ IdentityIdle /\ SliceIdle /\ ManagerIdle /\ CustomSliceIdle /\ ShareIdle /\ PoolIdle /\ MatchIdle

\* The ONNXRUNTIME_ENFORCE tests of ComputeImpl.
Enforced ==
  /\ rs_seq_axis_ < Len(rs_dims)
  /\ rs_batch_axis_ < Len(rs_dims)
  /\ Len(rs_seq_lengths.dims) \in {0, 1}
  /\ Len(rs_seq_lengths.data) \in {rs_dims[rs_batch_axis_ + 1], 1}
  /\ \A i \in 1..Len(rs_seq_lengths.data) :
       rs_seq_lengths.data[i] > 0 /\ rs_seq_lengths.data[i] <= rs_dims[rs_seq_axis_ + 1]

\* s[k] after the loop over the dimensions: the product of the dimensions other than
\* the two axes that come after k of the two axes.
MergedSize(k) ==
  LET axes == {rs_batch_axis_, rs_seq_axis_}
      RECURSIVE Over(_)
      Over(i) ==
        IF i = Len(rs_dims) THEN 1
        ELSE (IF i \notin axes /\ Cardinality({a \in axes : a < i}) = k
                THEN rs_dims[i + 1] ELSE 1) * Over(i + 1)
  IN  Over(0)

\* The element copies of the two loops, as pairs (offset in y, offset in x).
Copies ==
  LET batch_size == rs_dims[rs_batch_axis_ + 1]
      seq_size == rs_dims[rs_seq_axis_ + 1]
      seq_lengths_size == Len(rs_seq_lengths.data)
      batch_first == rs_batch_axis_ < rs_seq_axis_
      merged_batch_size == batch_size * MergedSize(IF batch_first THEN 0 ELSE 1)
      width == MergedSize(2)
      pre_seq_size == IF batch_first THEN MergedSize(1) ELSE MergedSize(0)
      seq_strides == IF batch_first THEN width ELSE width * merged_batch_size
      pre_seq_strides == seq_strides * seq_size
      merged_batch_strides == IF batch_first THEN pre_seq_strides * pre_seq_size ELSE width
      seq_len(merged_batch) == rs_seq_lengths.data[((merged_batch % batch_size) % seq_lengths_size) + 1]
      pre_seq_pos(merged_batch, pre) == merged_batch * merged_batch_strides + pre * pre_seq_strides
  IN  UNION {
        IF batch_first
          THEN {<<pre_seq_pos(mb, pre) + row * width + col,
                  pre_seq_pos(mb, pre) + (seq_len(mb) - 1 - row) * width + col>> :
                  row \in 0..(seq_len(mb) - 1), col \in 0..(width - 1)}
               \cup
               {<<pre_seq_pos(mb, pre) + seq_strides * seq_len(mb) + row * width + col,
                  pre_seq_pos(mb, pre) + seq_strides * seq_len(mb)
                    + (seq_size - seq_len(mb) - 1 - row) * width + col>> :
                  row \in 0..(seq_size - seq_len(mb) - 1), col \in 0..(width - 1)}
          ELSE {<<pre_seq_pos(mb, pre) + seq_strides * (seq_len(mb) - seq - 1) + col,
                  pre_seq_pos(mb, pre) + seq * seq_strides + col>> :
                  seq \in 0..(seq_len(mb) - 1), col \in 0..(width - 1)}
               \cup
               {<<pre_seq_pos(mb, pre) + seq * seq_strides + col,
                  pre_seq_pos(mb, pre) + seq * seq_strides + col>> :
                  seq \in seq_len(mb)..(seq_size - 1), col \in 0..(width - 1)}
        : mb \in 0..(merged_batch_size - 1), pre \in 0..(pre_seq_size - 1)}

\* ReverseSequence::Compute: ComputeImpl for the types of the inputs.  The input
\* element at offset i is i; an element of y that no copy wrote is -1.
Compute ==
  /\ rs_status = "none"
  /\ IF Enforced
       THEN /\ rs_y' = [e \in 1..Product(rs_dims) |->
                          IF \E c \in Copies : c[1] = e - 1
                            THEN (CHOOSE c \in Copies : c[1] = e - 1)[2]
                            ELSE -1]
            /\ rs_status' = "OK"
       ELSE /\ rs_status' = "FAIL"
            /\ UNCHANGED rs_y
  /\ UNCHANGED <<nonReverseVars, rs_dims, rs_batch_axis_, rs_seq_axis_, rs_seq_lengths>>

ReverseSpec == ReverseInit /\ [][Compute]_vars

\* ------------------------------------------------------------ claim C30
\* The stride of an axis (from 0) of the input, and the index along it of the
\* element at an offset.
Stride(axis) == Product(SubSeq(rs_dims, axis + 2, Len(rs_dims)))
IndexAlong(axis, offset) == (offset \div Stride(axis)) % rs_dims[axis + 1]

\* The offset of the input element that the output must hold at an offset.
Reversed(offset) ==
  LET b == IndexAlong(rs_batch_axis_, offset)
      i == IndexAlong(rs_seq_axis_, offset)
      len == rs_seq_lengths.data[IF Len(rs_seq_lengths.data) = 1 THEN 1 ELSE b + 1]
  IN  IF i < len THEN offset + ((len - 1 - i) - i) * Stride(rs_seq_axis_) ELSE offset

ValidReverseInput ==
  /\ rs_batch_axis_ < Len(rs_dims) /\ rs_seq_axis_ < Len(rs_dims)
  /\ Len(rs_seq_lengths.data) \in {1, rs_dims[rs_batch_axis_ + 1]}
  /\ \A j \in 1..Len(rs_seq_lengths.data) :
       0 < rs_seq_lengths.data[j] /\ rs_seq_lengths.data[j] <= rs_dims[rs_seq_axis_ + 1]

\* C30: on every input shape, every pair of different axes of it and every
\* seq_lengths with 0 < seq_lengths[b] <= max_seq_len (one per batch, or one for
\* all), Compute returns OK with an output of the input's shape that holds, for each
\* batch b, at position i < seq_lengths[b] of the sequence axis the input at
\* position seq_lengths[b] - 1 - i, and at every other position the input at the
\* same position.
C30_ReversesPrefixKeepsRest ==
  (rs_status # "none" /\ ValidReverseInput) =>
    /\ rs_status = "OK"
    /\ Len(rs_y) = Product(rs_dims)
    /\ \A e \in 1..Len(rs_y) : rs_y[e] = Reversed(e - 1)

\* ------------------------------------------------ CustomSlice::Compute
\* The values of starts and ends: negative ones, ones inside a dimension, and one
\* larger than every dimension.
IndexValues == (0 - MaxDim)..(MaxDim + 1)

\* An input of rank 1 or 2, axes absent or naming different axes of the input, and
\* one element of starts and of ends per axis they apply to.
CustomSliceInit ==
  /\ cs_dims \in UNION {[1..r -> 1..MaxDim] : r \in 1..MaxRank}
  /\ cs_axes \in {Absent} \cup
       {[has |-> TRUE, ints |-> q] :
          q \in {a \in SeqsUpTo(0..(Len(cs_dims) - 1), Len(cs_dims)) : a # <<>> /\ Distinct(a)}}
  /\ \E n \in {IF cs_axes.has THEN Len(cs_axes.ints) ELSE Len(cs_dims)} :
       /\ cs_starts \in [1..n -> IndexValues]
       /\ cs_ends \in [1..n -> IndexValues]
  /\ cs_output_dims = <<>>
  /\ cs_output = <<>>
  /\ cs_status = "none"
  /\ BaseIdle /\ ConvIdle /\ IdentityIdle /\ SliceIdle /\ ManagerIdle /\ ReverseIdle /\ ShareIdle /\ PoolIdle /\ MatchIdle

\* The offset in a tensor of the given shape of the element at the given indices.
OffsetOf(dims, indices) ==
  LET RECURSIVE Over(_)
      Over(i) == IF i > Len(dims) THEN 0
                 ELSE indices[i] * Product(SubSeq(dims, i + 1, Len(dims))) + Over(i + 1)
  IN  Over(1)

\* The index along the axis (from 0) of the element at an offset of a tensor.
IndexOf(dims, axis, offset) ==
  (offset \div Product(SubSeq(dims, axis + 2, Len(dims)))) % dims[axis + 1]

\* SliceIterator<T>(input_tensor, starts, extents), read Product(extents) times:
\* the elements of the block of the given extents that begins at starts, the last
\* axis running fastest.  An element whose address is outside the tensor's buffer
\* reads as the value garbage.
SliceIterator(dims, starts, extents, garbage) ==
  [k \in 1..Product(extents) |->
     LET address == OffsetOf(dims, [i \in 1..Len(dims) |->
                                      starts[i] + IndexOf(extents, i - 1, k - 1)])
     IN  IF address \in 0..(Product(dims) - 1) THEN address + 1 ELSE garbage]

\* CustomSlice::Compute.  begins[i] and ends[i] are read for every dimension of the
\* input, whatever the number of elements of starts and ends: an element past the
\* end of their data is any value.  A negative dimension of the output shape makes
\* the call fail or yield no data; a block that leaves the input reads garbage.
CustomSlice_Compute ==
  /\ cs_status = "none"
  /\ \E begins, ends \in [1..Len(cs_dims) -> IndexValues], garbage \in {0, -1} :
       /\ \A i \in 1..Len(cs_starts) : i <= Len(cs_dims) =>
            begins[i] = cs_starts[i] /\ ends[i] = cs_ends[i]
       /\ LET starts == [i \in 1..Len(cs_dims) |-> begins[i]]
              output_dims == [i \in 1..Len(cs_dims) |-> ends[i] - begins[i]]
          IN  IF \E i \in 1..Len(cs_dims) : output_dims[i] < 0
                THEN \/ /\ cs_status' = "FAIL"
                        /\ UNCHANGED <<cs_output_dims, cs_output>>
                     \/ /\ cs_status' = "OK"
                        /\ cs_output_dims' = output_dims
                        /\ cs_output' = <<>>
                ELSE /\ cs_status' = "OK"
                     /\ cs_output_dims' = output_dims
                     /\ cs_output' = SliceIterator(cs_dims, starts, output_dims, garbage)
  /\ UNCHANGED <<nonCustomSliceVars, cs_dims, cs_starts, cs_ends, cs_axes>>

CustomSliceSpec == CustomSliceInit /\ [][CustomSlice_Compute]_vars

\* ------------------------------------------------------------ claim C31
\* The inputs starts, ends and axes as the attributes of a Slice node.
AsSliceNode ==
  [starts |-> [has |-> TRUE, ints |-> cs_starts],
   ends |-> [has |-> TRUE, ints |-> cs_ends], axes |-> cs_axes]

\* The offsets of the input elements of the documented result, in increasing order.
DocumentedSlice ==
  SetToSeq({o \in 0..(Product(cs_dims) - 1) :
              \A a \in 0..(Len(cs_dims) - 1) :
                IndexOf(cs_dims, a, o) \in KeptPositions(cs_dims, AsSliceNode, a)})

\* C31: CustomSlice returns, for every axis, the elements of data from start
\* (inclusive) to end (exclusive), where a negative start or end counts from the end
\* of that dimension, a start or end larger than the dimension size n is treated as
\* n, and the optional axes input selects the axes that starts and ends apply to (all
\* axes when omitted).
C31_SliceAsDocumented ==
  cs_status # "none" =>
    /\ cs_status = "OK"
    /\ cs_output_dims = [a \in 1..Len(cs_dims) |->
                           Cardinality(KeptPositions(cs_dims, AsSliceNode, a - 1))]
    /\ cs_output = [k \in 1..Len(DocumentedSlice) |-> DocumentedSlice[k] + 1]

\* ------------------------------- the graph's initializers across a Conv fusion
\* graph.GetInitializedTensor(name, p): the tensor of that name, or p left null.
GetInitializedTensor(initializers, name) ==
  IF name \in DOMAIN initializers THEN initializers[name] ELSE NoTensor

\* graph.RemoveInitializedTensor(name); graph.AddInitializedTensor(tensor), the
\* tensor carrying that name.
ReplaceInitializedTensor(initializers, name, tensor) ==
  [n \in DOMAIN initializers \cup {name} |-> IF n = name THEN tensor ELSE initializers[n]]

\* A Conv (inputs X, W and perhaps conv_B) followed by a BatchNormalization or a Mul
\* that passed the tests of the nodes, and another node that reads any of the
\* graph's initializers.  W is an initializer; conv_B may not be one.
ShareInit ==
  /\ sh_kind \in {"BatchNormalization", "Mul"}
  /\ sh_conv_inputs \in {<<"X", "W">>, <<"X", "W", "conv_B">>}
  /\ sh_next_inputs = IF sh_kind = "Mul" THEN <<"Y", "mul_B">>
                      ELSE <<"Y", "scale", "bn_B", "mean", "var">>
  /\ \E W \in Tensors({"float", "int64"}, {<<MaxChannels, KernelSize, 1, 1>>}, {<<1, 0>>}),
        conv_B \in {NoTensor} \cup Tensors({"float"}, {<<MaxChannels>>}, {<<1, 4>>}),
        bn_B \in Tensors({"float"}, ChannelShapes, {<<-1, 3>>}),
        mul_B \in Tensors({"float"}, {<<>>, <<MaxChannels, 1, 1>>, <<MaxChannels, 1, 2>>},
                          {<<-3, 2>>}) :
       LET all == [n \in {"W", "conv_B", "scale", "bn_B", "mean", "var", "mul_B"} |->
                     CASE n = "W" -> W
                       [] n = "conv_B" -> conv_B
                       [] n = "scale" -> [data_type |-> "float", dims |-> <<MaxChannels>>,
                                          data |-> [i \in 1..MaxChannels |-> ScaleUnit * i]]
                       [] n = "bn_B" -> bn_B
                       [] n = "mean" -> [data_type |-> "float", dims |-> <<MaxChannels>>,
                                         data |-> [i \in 1..MaxChannels |-> i]]
                       [] n = "var" -> [data_type |-> "float", dims |-> <<MaxChannels>>,
                                        data |-> [i \in 1..MaxChannels |-> i * i - 1]]
                       [] n = "mul_B" -> mul_B]
           present == {n \in DOMAIN all :
                         /\ all[n] # NoTensor
                         /\ n = "conv_B" => Len(sh_conv_inputs) = 3
                         /\ n = "mul_B" => sh_kind = "Mul"
                         /\ n \in {"scale", "bn_B", "mean", "var"} => sh_kind = "BatchNormalization"}
       IN  sh_initializers = [n \in present |-> all[n]]
  /\ sh_before = sh_initializers
  /\ sh_other_inputs \in SUBSET DOMAIN sh_initializers
  /\ sh_pc = "start"
  /\ BaseIdle /\ ConvIdle /\ IdentityIdle /\ SliceIdle /\ ManagerIdle /\ ReverseIdle /\ PoolIdle /\ MatchIdle
  /\ CustomSliceIdle

\* The Conv as the fusions read it: the number of its inputs and the tensors that
\* its second and third input name.
ConvOf(initializers, conv_inputs) ==
  [inputs_size |-> Len(conv_inputs),
   W |-> GetInitializedTensor(initializers, conv_inputs[2]),
   B |-> IF Len(conv_inputs) = 3 THEN GetInitializedTensor(initializers, conv_inputs[3])
                                 ELSE NoTensor]

\* ConvBNFusion::Apply on the pair, from "Get initializers of BatchNormalization"
\* to "Replace initializers of conv node".  The new weights are stored under the
\* name of the old ones; the new bias under the name of the Conv's bias, or, for a
\* Conv without one, under the name of the BatchNormalization's B, which becomes
\* the Conv's third input.
ConvBNFusion_Apply ==
  /\ sh_pc = "start" /\ sh_kind = "BatchNormalization"
  /\ LET conv == ConvOf(sh_initializers, sh_conv_inputs)
         bn == [epsilon |-> 1,
                scale |-> GetInitializedTensor(sh_initializers, sh_next_inputs[2]),
                B |-> GetInitializedTensor(sh_initializers, sh_next_inputs[3]),
                mean |-> GetInitializedTensor(sh_initializers, sh_next_inputs[4]),
                var |-> GetInitializedTensor(sh_initializers, sh_next_inputs[5])]
         new == ConvBNInitializers(conv, bn)
         B_name == IF Len(sh_conv_inputs) = 3 THEN sh_conv_inputs[3] ELSE sh_next_inputs[3]
     IN  IF ConvBNTests(conv, bn)
           THEN /\ sh_initializers' =
                     ReplaceInitializedTensor(
                       ReplaceInitializedTensor(sh_initializers, sh_conv_inputs[2], new.W),
                       B_name, new.B)
                /\ sh_conv_inputs' = IF Len(sh_conv_inputs) = 3 THEN sh_conv_inputs
                                     ELSE Append(sh_conv_inputs, B_name)
           ELSE UNCHANGED <<sh_initializers, sh_conv_inputs>>
  /\ sh_pc' = "done"
  /\ UNCHANGED <<nonShareVars, sh_kind, sh_before, sh_next_inputs, sh_other_inputs>>

\* ConvMulFusion::Apply on the pair, up to "Replace initializers of conv node".
ConvMulFusion_Apply ==
  /\ sh_pc = "start" /\ sh_kind = "Mul"
  /\ LET conv == ConvOf(sh_initializers, sh_conv_inputs)
         mul_B == GetInitializedTensor(sh_initializers, sh_next_inputs[2])
         new == ConvMulInitializers(conv, mul_B)
     IN  IF ConvMulTests(conv, mul_B)
           THEN sh_initializers' =
                  IF Len(sh_conv_inputs) = 3
                    THEN ReplaceInitializedTensor(
                           ReplaceInitializedTensor(sh_initializers, sh_conv_inputs[2], new.W),
                           sh_conv_inputs[3], new.B)
                    ELSE ReplaceInitializedTensor(sh_initializers, sh_conv_inputs[2], new.W)
           ELSE UNCHANGED sh_initializers
  /\ sh_pc' = "done"
  /\ UNCHANGED <<nonShareVars, sh_kind, sh_before, sh_conv_inputs, sh_next_inputs,
                 sh_other_inputs>>

ShareNext == ConvBNFusion_Apply \/ ConvMulFusion_Apply

ShareSpec == ShareInit /\ [][ShareNext]_vars

\* ------------------------------------------------------------ claim C36
\* C36: after ConvBNFusion::Apply or ConvMulFusion::Apply every initializer that is
\* an input of a node other than the fused Conv has the same name and the same
\* value as before the fusion.
C36_FusionKeepsSharedInitializers ==
  sh_pc = "done" =>
    \A name \in sh_other_inputs :
      /\ name \in DOMAIN sh_initializers
      /\ sh_initializers[name] = sh_before[name]

\* ------------------------------------- the thread pool of InferenceSession::Impl
\* The session options and the machine: session_thread_pool_size >= 0, and any
\* number of hardware threads, 0 included (hardware_concurrency returns 0 when the
\* number is not computable).
PoolInit ==
  /\ tp_session_options \in [enable_sequential_execution : BOOLEAN,
                             session_thread_pool_size : 0..MaxPoolSize]
  /\ tp_hardware_concurrency \in 0..MaxHardwareThreads
  /\ tp_thread_pool_ = NoPool
  /\ tp_p_exec = "none"
  /\ tp_tasks = 0
  /\ tp_ran = 0
  /\ tp_pc = "new"
  /\ BaseIdle /\ ConvIdle /\ IdentityIdle /\ SliceIdle /\ ManagerIdle /\ ReverseIdle /\ MatchIdle
  /\ CustomSliceIdle /\ ShareIdle

\* int pool_size = session_thread_pool_size == 0 ? hardware_concurrency() / 2
\*                                               : session_thread_pool_size;
PoolSize(session_thread_pool_size, hardware_concurrency) ==
  IF session_thread_pool_size = 0 THEN hardware_concurrency \div 2
                                  ELSE session_thread_pool_size

\* Impl::Impl: the pool is created only when sequential execution is not enabled.
Impl ==
  /\ tp_pc = "new"
  /\ tp_thread_pool_' =
       IF ~tp_session_options.enable_sequential_execution
         THEN [created |-> TRUE,
               workers |-> PoolSize(tp_session_options.session_thread_pool_size,
                                    tp_hardware_concurrency)]
         ELSE NoPool
  /\ tp_pc' = "constructed"
  /\ UNCHANGED <<nonPoolVars, tp_session_options, tp_hardware_concurrency, tp_p_exec,
                 tp_tasks, tp_ran>>

\* Run, lines 770-776: the executor that the option selects.
CreateExecutor ==
  /\ tp_pc = "constructed"
  /\ tp_p_exec' = IF tp_session_options.enable_sequential_execution
                    THEN "SequentialExecutor" ELSE "ParallelExecutor"
  /\ tp_pc' = "run"
  /\ UNCHANGED <<nonPoolVars, tp_session_options, tp_hardware_concurrency, tp_thread_pool_,
                 tp_tasks, tp_ran>>

\* The sequential executor runs a node on the calling thread.
RunNodeInline ==
  /\ tp_pc = "run" /\ tp_p_exec = "SequentialExecutor"
  /\ tp_ran < MaxTasks
  /\ tp_ran' = tp_ran + 1
  /\ UNCHANGED <<nonPoolVars, tp_session_options, tp_hardware_concurrency, tp_thread_pool_,
                 tp_p_exec, tp_tasks, tp_pc>>

\* ParallelExecutor::EnqueueNode: session_state.GetThreadPool()->RunTask(task).
RunTask ==
  /\ tp_pc = "run" /\ tp_p_exec = "ParallelExecutor"
  /\ tp_tasks + tp_ran < MaxTasks
  /\ tp_tasks' = tp_tasks + 1
  /\ UNCHANGED <<nonPoolVars, tp_session_options, tp_hardware_concurrency, tp_thread_pool_,
                 tp_p_exec, tp_ran, tp_pc>>

\* A worker of the pool takes a task and runs its node.
WorkerRunsTask ==
  /\ tp_thread_pool_.created /\ tp_thread_pool_.workers >= 1
  /\ tp_tasks > 0
  /\ tp_tasks' = tp_tasks - 1
  /\ tp_ran' = tp_ran + 1
  /\ UNCHANGED <<nonPoolVars, tp_session_options, tp_hardware_concurrency, tp_thread_pool_,
                 tp_p_exec, tp_pc>>

PoolNext == Impl \/ CreateExecutor \/ RunNodeInline \/ RunTask \/ WorkerRunsTask

\* The workers of the pool run the tasks they can take.
PoolSpec == PoolInit /\ [][PoolNext]_vars /\ WF_vars(WorkerRunsTask)

\* ------------------------------------------------------------ claim C38
\* C38: whenever the parallel executor is selected the session's thread pool is
\* created with at least one worker, for every session_thread_pool_size >= 0 and
\* every hardware thread count, and every enqueued node is eventually run; when
\* sequential execution is selected no thread pool is created and the sequential
\* executor is used.
C38_PoolHasAWorker ==
  /\ [](tp_pc \in {"constructed", "run"} =>
          IF tp_session_options.enable_sequential_execution
            THEN tp_thread_pool_ = NoPool
            ELSE tp_thread_pool_.created /\ tp_thread_pool_.workers >= 1)
  /\ [](tp_pc = "run" =>
          tp_p_exec = IF tp_session_options.enable_sequential_execution
                        THEN "SequentialExecutor" ELSE "ParallelExecutor")
  /\ (tp_tasks > 0 ~> tp_tasks = 0)

\* ------------------------------ InferenceSession::Impl::MatchOutputsWithProviders
\* The graph: a node producing Y, a node producing Z whose second, optional output
\* is absent; the graph outputs are Y, Z, W and V, where W was folded into an
\* initializer and V is produced by no node and has no initializer.
GraphOutputs == <<"Y", "Z", "W", "V">>
InitializedTensors == "W" :> TensorValue("float", kCpuExecutionProvider, "Default", 7, "weight")
NodesOn(p1, p2) ==
  << [provider |-> p1, outputs |-> <<"Y">>], [provider |-> p2, outputs |-> <<"Z", "">>] >>
NodeOutputNames == {"Y", "Z"}

\* The calls that ValidateOutputs lets through: one or two names of graph outputs,
\* the same name twice included, and fetches that are empty or as many as the names.
MatchInit ==
  /\ mo_providers \in ProviderLists
  /\ \E p1, p2 \in RegisteredTypes(mo_providers) : mo_nodes = NodesOn(p1, p2)
  /\ \E n \in 1..2 :
       /\ mo_output_names \in [1..n -> Range(GraphOutputs)]
       /\ mo_fetches \in {<<>>} \cup [1..n -> GivenChoices \cup {MapValue}]
  /\ mo_new_fetches = <<>>
  /\ mo_seen_outputs = {}
  /\ mo_status = "none"
  /\ mo_pc = "call"
  /\ BaseIdle /\ ConvIdle /\ IdentityIdle /\ SliceIdle /\ ManagerIdle /\ ReverseIdle /\ CustomSliceIdle /\ ShareIdle /\ PoolIdle

\* Contains: std::find gives the first position of the name (positions from 1).
Contains(output_names, name) ==
  LET at == {i \in 1..Len(output_names) : output_names[i] = name}
  IN  IF at = {} THEN [first |-> FALSE, second |-> 0]
                 ELSE [first |-> TRUE, second |-> Min(at)]

\* The body of the loop over node.OutputDefs(), lines 554-590; m holds seen_outputs
\* and new_fetches.
MatchOutputDef(m, node, name, eps, output_names, user_fetches) ==
  LET found == Contains(output_names, name)
      idx == found.second
      orig_mlvalue == user_fetches[idx]
  IN  IF name = "" \/ ~found.first THEN m
      ELSE [seen_outputs |-> m.seen_outputs \cup {name},
            new_fetches |->
              IF orig_mlvalue.allocated /\ orig_mlvalue.is_tensor
                 /\ node.provider # ProviderTypeOf(eps, orig_mlvalue.provider)
                THEN m.new_fetches
                ELSE [m.new_fetches EXCEPT ![idx] = user_fetches[idx]]]

RECURSIVE MatchOutputDefs(_, _, _, _, _, _)
MatchOutputDefs(m, node, k, eps, output_names, user_fetches) ==
  IF k > Len(node.outputs) THEN m
  ELSE MatchOutputDefs(MatchOutputDef(m, node, node.outputs[k], eps, output_names, user_fetches),
                       node, k + 1, eps, output_names, user_fetches)

\* The loop over p_graph->Nodes(), lines 550-592, with its break.
RECURSIVE MatchNodes(_, _, _, _, _, _)
MatchNodes(m, nodes, n, eps, output_names, user_fetches) ==
  IF n > Len(nodes) \/ Cardinality(m.seen_outputs) = Len(user_fetches) THEN m
  ELSE MatchNodes(MatchOutputDefs(m, nodes[n], 1, eps, output_names, user_fetches),
                  nodes, n + 1, eps, output_names, user_fetches)

\* The loop over p_graph->GetOutputs(), lines 605-624: an output that no node
\* produced and that has an initializer is returned as that weight.
RECURSIVE MatchWeights(_, _, _)
MatchWeights(m, d, output_names) ==
  IF d > Len(GraphOutputs) THEN m
  ELSE LET def_name == GraphOutputs[d]
           found == Contains(output_names, def_name)
       IN  IF def_name = "" \/ def_name \in m.seen_outputs \/ ~found.first
              \/ def_name \notin DOMAIN InitializedTensors
             THEN MatchWeights(m, d + 1, output_names)
             ELSE MatchWeights([seen_outputs |-> m.seen_outputs \cup {def_name},
                                new_fetches |-> [m.new_fetches EXCEPT
                                                   ![found.second] = InitializedTensors[def_name]]],
                               d + 1, output_names)

\* MatchOutputsWithProviders with its fetches: the status, seen_outputs and
\* new_fetches of the whole function.
MatchFetches(nodes, eps, output_names, user_fetches) ==
  LET start == [seen_outputs |-> {},
                new_fetches |-> [i \in 1..Len(output_names) |-> Unallocated]]
      m1 == MatchNodes(start, nodes, 1, eps, output_names, user_fetches)
      m2 == MatchWeights(m1, 1, output_names)
  IN  IF Cardinality(m1.seen_outputs) = Len(output_names)
        THEN [status |-> "OK", m |-> m1]
      ELSE IF Cardinality(m2.seen_outputs) # Len(output_names)
        THEN [status |-> "FAIL", m |-> m2]
      ELSE [status |-> "OK", m |-> m2]

\* One call of MatchOutputsWithProviders from Run.
MatchCall ==
  /\ mo_pc = "call"
  /\ LET user_fetches == ResizedFetches(mo_output_names, mo_fetches)
         r == MatchFetches(mo_nodes, mo_providers, mo_output_names, user_fetches)
     IN  /\ mo_fetches' = user_fetches
         /\ mo_new_fetches' = r.m.new_fetches
         /\ mo_seen_outputs' = r.m.seen_outputs
         /\ mo_status' = r.status
  /\ mo_pc' = "done"
  /\ UNCHANGED <<nonMatchVars, mo_providers, mo_nodes, mo_output_names>>

MatchSpec == MatchInit /\ [][MatchCall]_vars

\* The node that produces a name: its provider type.
ProducerType(nodes, name) ==
  (CHOOSE n \in Range(nodes) : name \in Range(n.outputs)).provider

\* C39: MatchOutputsWithProviders returns OK exactly when every requested name,
\* repeated or not, is the output of a node or a graph output with an initializer;
\* then a pre-allocated tensor requested from a node is handed on only if its
\* provider's type is the node's, and an output with an initializer is returned as
\* the weight.
C39_MatchesEveryValidName ==
  mo_pc = "done" =>
    /\ mo_status = "OK" <=>
         \A i \in 1..Len(mo_output_names) :
           mo_output_names[i] \in NodeOutputNames \cup DOMAIN InitializedTensors
    /\ mo_status = "OK" =>
         \A i \in 1..Len(mo_output_names) :
           /\ ( /\ mo_output_names[i] \in NodeOutputNames
                /\ mo_new_fetches[i].allocated /\ mo_new_fetches[i].is_tensor )
                => /\ mo_new_fetches[i] = mo_fetches[i]
                   /\ ProviderTypeOf(mo_providers, mo_fetches[i].provider)
                        = ProducerType(mo_nodes, mo_output_names[i])
           /\ mo_output_names[i] \in DOMAIN InitializedTensors
                => mo_new_fetches[i] = InitializedTensors[mo_output_names[i]]
====
